---- MODULE Spec2Model ----
(***************************************************************************)
(* A model of suanpan's reader of Abaqus .fil result files:                *)
(*   - the schema registry  _pad, _abq_dtype, _record_dtype  (abqfil.py),  *)
(*   - the model builder    AbqFil.__init__                  (abqfil.py),  *)
(*   - the increment decoder AbqFil.get_step                 (abqfil.py).  *)
(* The record framing layer (suanpan.ftnfil: rstream, datablock, incstart, *)
(* AWL, AWR) is not part of the sources at hand; it is modelled from the   *)
(* specification and from the way abqfil.py calls it.                      *)
(*                                                                         *)
(* A file is a sequence of logical records.  A record is                   *)
(*   [typ, len, num, tag, dat]                                             *)
(* typ and len are the two header words (len counts them), and the payload *)
(* words are held as: num (a leading integer word), tag (a leading 8 byte  *)
(* text word) and dat (the remaining words), as far as a record kind has   *)
(* them.  Word positions (pos) are sums of record lengths, as in the code. *)
(***************************************************************************)
EXTENDS Integers, Sequences, FiniteSets, TLC

VARIABLES
    fil,    \* self.fil["data"]: the records of the file, in file order
    cur,    \* index in fil of the record held in (pos, rtyp, rlen, rdat)
    pc,     \* where AbqFil.__init__ stands (the line of its pending read)
    err,    \* the exception that aborted __init__ ("" while there is none)
    loc,    \* the local variables of __init__
    self,   \* the attributes of the AbqFil object
    it,     \* the get_step generator being iterated
    other,  \* a generator of an earlier get_step call that is still held
    seen,   \* per increment, the outcome of its first finished iteration
            \* and the number of the get_step call that gave it
    lk      \* the last call of _record_dtype: arguments and outcome

vars == <<fil, cur, pc, err, loc, self, it, other, seen, lk>>

----------------------------------------------------------------------------
(* Bounds of the model *)

\* most records __init__ reads (the header section up to the first 2000),
\* the 2001 padding records not counted
MaxHdrRecs == 10
\* most records __init__ reads, the 2001 padding records not counted, of a
\* file that holds more than the least header section does in more than
\* one of its sections
MaxMixRecs == 8
\* most records of the result section (from the first 2000 record to the
\* end of the file) behind the header sections __init__ is tried with
MaxResRecs == 2
\* most records of the result section behind the least header section
MaxStepRecs == 8
\* most 1900 and 1990 records of a file
MaxElmRecs == 3
\* most 1901 records of a file
MaxNodeRecs == 2
\* most 1933 and 1934 records of a file, and most 1931 and 1932 records
MaxSetRecs == 3
\* most 1501 and 1502 records of a file
MaxSurfRecs == 4
\* element, node and set member numbers are drawn from 1..MaxNum
MaxNum == 2
\* most records of a result section that is cut short
MaxCutRecs == 6
\* most records of the result section on which two generators are held
MaxPairRecs == 8
\* most rows of the one request of an increment whose rows are varied
MaxRows == 3
\* get_step calls that are started in one behaviour
MaxCalls == 3
\* _record_dtype is called on its own with record lengths 2..MaxRlen
MaxRlen == 24

----------------------------------------------------------------------------
(* suanpan.ftnfil constants *)

\* bytes per Abaqus word
AWL == 8
\* words per physical (Fortran) record
AWR == 512

----------------------------------------------------------------------------
(* Helpers on sequences *)

RECURSIVE SumLen(_)
SumLen(s) == IF s = <<>> THEN 0 ELSE s[1].len + SumLen(Tail(s))

\* word position of record k of file f (k may be Len(f) + 1: end of file)
PosOf(f, k) == SumLen(SubSeq(f, 1, k - 1))

RECURSIVE Flatten(_)
Flatten(ss) == IF ss = <<>> THEN <<>> ELSE ss[1] \o Flatten(Tail(ss))

RECURSIVE SelectSeqBy(_, _)
SelectSeqBy(s, g) ==
    IF s = <<>> THEN <<>>
    ELSE (IF s[1].eltyp = g THEN <<s[1]>> ELSE <<>>) \o SelectSeqBy(Tail(s), g)

Rec(t, l, n, g, d) == [typ |-> t, len |-> l, num |-> n, tag |-> g, dat |-> d]

----------------------------------------------------------------------------
(* abqfil.py, module level *)

\* _issorted(v): np.all(v[:-1] <= v[1:])
IsSorted(v) == \A i \in 1..(Len(v) - 1) : v[i] <= v[i + 1]

\* _issorted_strict(v): np.all(v[:-1] < v[1:])
IsSortedStrict(v) == \A i \in 1..(Len(v) - 1) : v[i] < v[i + 1]

\* _pad(x) if it left the size as it is
PadNone(x) == x

\* _pad(x): least multiple of AWL greater than or equal to x
Pad(x) == x + ((-x) % AWL)

\* a field of a layout: name and numpy itemsize in bytes
Item(n, sz) == [name |-> n, size |-> sz]

RECURSIVE Accumulate(_)
\* itertools.accumulate(_pad(i.itemsize) for i in formats)
Accumulate(sizes) ==
    IF sizes = <<>> THEN <<>>
    ELSE LET prev == Accumulate(SubSeq(sizes, 1, Len(sizes) - 1))
         IN  Append(prev, (IF prev = <<>> THEN 0 ELSE prev[Len(prev)])
                          + Pad(sizes[Len(sizes)]))

\* _abq_dtype(items): names, sizes, offsets (0, *cumsum[:-1]), itemsize
AbqDtype(items) ==
    LET cumsum == Accumulate([i \in 1..Len(items) |-> items[i].size])
    IN  [names    |-> [i \in 1..Len(items) |-> items[i].name],
         sizes    |-> [i \in 1..Len(items) |-> items[i].size],
         offsets  |-> [i \in 1..Len(items) |-> IF i = 1 THEN 0 ELSE cumsum[i - 1]],
         itemsize |-> cumsum[Len(cumsum)]]

\* the match statement of _record_dtype: the items of a supported pair,
\* <<>> for "case _"
RecordItems(rtyp, rlen) ==
    LET dlen == rlen - 2 IN
    CASE rtyp = 1501 /\ dlen >= 5 ->
            <<Item("name", 8), Item("sdim", 4), Item("stype", 4),
              Item("nfacet", 4), Item("nmaster", 4)>>
            \o [i \in 1..(dlen - 5) |-> Item("msurf" \o ToString(i), 8)]
      [] rtyp = 1900 /\ dlen > 2 ->
            <<Item("elnum", 8), Item("eltyp", 8), Item("ninc", 8 * (dlen - 2))>>
      [] rtyp = 1901 /\ dlen > 1 ->
            <<Item("nnum", 8), Item("coord", 8 * (dlen - 1))>>
      [] rtyp = 1911 /\ dlen = 3 ->
            <<Item("out_type", 4), Item("out_set", 8), Item("out_element", 8)>>
      [] rtyp = 1921 /\ dlen = 7 ->
            <<Item("ver", 8), Item("date", 16), Item("time", 8),
              Item("nelm", 4), Item("nnod", 4), Item("elsiz", 8)>>
      [] rtyp = 1940 /\ dlen > 1 ->
            <<Item("key", 4), Item("label", (dlen - 1) * AWL)>>
      [] rtyp = 2000 /\ dlen = 21 ->
            <<Item("ttime", 8), Item("stime", 8), Item("cratio", 8),
              Item("sampl", 8), Item("procid", 4), Item("step", 4),
              Item("incr", 4), Item("lpert", 4), Item("lpf", 8),
              Item("freq", 8), Item("tinc", 8), Item("subheading", 80)>>
      [] OTHER -> <<>>

\* _record_dtype(rtyp, rlen) as the match alone would have it: every pair
\* is given a layout of sorts (used only as a variant of RecordDtype)
RecordDtypeLenient(rtyp, rlen) ==
    LET items == RecordItems(rtyp, rlen) IN
    [rtyp |-> rtyp, rlen |-> rlen, exc |-> "", msg |-> <<>>,
     dt |-> IF items = <<>> THEN AbqDtype(<<Item("raw", (rlen - 2) * AWL)>>)
            ELSE AbqDtype(items)]

\* _record_dtype(rtyp, rlen): the call (rtyp, rlen) and its outcome, which
\* is the layout dt, or the exception exc raised with the numbers msg in
\* its message (lines 127 and 131)
RecordDtype(rtyp, rlen) ==
    LET items == RecordItems(rtyp, rlen) IN
    IF items = <<>>
    THEN [rtyp |-> rtyp, rlen |-> rlen, exc |-> "ValueError",
          msg |-> <<rtyp, rlen>>, dt |-> <<>>]
    ELSE LET dtype == AbqDtype(items) IN
         IF dtype.itemsize = (rlen - 2) * AWL
         THEN [rtyp |-> rtyp, rlen |-> rlen, exc |-> "", msg |-> <<>>,
               dt |-> dtype]
         ELSE [rtyp |-> rtyp, rlen |-> rlen, exc |-> "AssertionError",
               msg |-> <<rtyp, rlen>>, dt |-> <<>>]

----------------------------------------------------------------------------
(* Values of the builder *)

\* an empty Python dict
EmptyDict == [k \in {} |-> <<>>]

\* d[k] = v of a Python dict (an existing key is overwritten)
DictSet(d, k, v) == (k :> v) @@ d

RECURSIVE SortedSeq(_)
\* the members of a finite set of integers in increasing order
SortedSeq(S) ==
    IF S = {} THEN <<>>
    ELSE LET m == CHOOSE x \in S : \A y \in S : x <= y
         IN  <<m>> \o SortedSeq(S \ {m})

\* np.unique(v): the distinct values of v, sorted
Unique(v) == SortedSeq({v[i] : i \in 1..Len(v)})

\* rdat.view("=2u4")[..., 0]: the low 32 bits of each 8 byte word.  The
\* words of the model are naturals below 2^31 (all that TLC's integers
\* hold), and the low 32 bits of such a word are the word.
LowU4(d) == [i \in 1..Len(d) |-> d[i]]

\* one row of a 1900 block: elnum, eltyp, ninc
ElmRow(r) == [elnum |-> r.num, eltyp |-> r.tag, ninc |-> r.dat]

\* one row of a 1901 block: nnum (coordinate values are not modelled)
NodeRow(r) == [nnum |-> r.num]

\* one row of a 1502 block: elnum (face keys and facet nodes are not modelled)
FacetRow(r) == [elnum |-> r.num]

Col(rows, name) == [i \in 1..Len(rows) |-> rows[i][name]]

\* the local dict elm of __init__ (line 165) keeps insertion order:
\* a sequence of [k |-> eltyp, v |-> list of arrays]
ElmKeys(d) == {d[i].k : i \in 1..Len(d)}

ElmIdx(d, k) == CHOOSE i \in 1..Len(d) : d[i].k = k

\* line 178 if every mesh component started a list of its own
ElmAppendFresh(d, k, comp) == Append(d, [k |-> k, v |-> <<comp>>])

\* elm.setdefault(k, []).append(comp)
ElmAppend(d, k, comp) ==
    IF k \in ElmKeys(d)
    THEN [d EXCEPT ![ElmIdx(d, k)].v = Append(@, comp)]
    ELSE Append(d, [k |-> k, v |-> <<comp>>])

\* the attributes of the object before __init__ has set any
NoSelf ==
    [info |-> <<>>, elm |-> <<>>, coord |-> <<>>, elset |-> EmptyDict,
     nset |-> EmptyDict, label |-> EmptyDict, dof |-> <<>>, heading |-> <<>>,
     rsurf |-> EmptyDict, dsurf |-> EmptyDict, step |-> <<>>, step_rec |-> <<>>]

\* the locals of __init__ before it has set any
NoLoc ==
    [s |-> 0, elm |-> <<>>, eltyp |-> 0, label |-> 0, arr |-> <<>>,
     surf |-> <<>>, name |-> 0, stype |-> 0, nfacet |-> 0]

\* the state of __init__ between two reads of the stream
\* an exception leaves __init__: its locals are gone and no object is made
Fail(b, e) ==
    [b EXCEPT !.pc = "failed", !.err = e, !.loc = NoLoc, !.self = NoSelf]

Goto(b, l) == [b EXCEPT !.pc = l]

----------------------------------------------------------------------------
(* AbqFil.__init__, from its end to its start.  Each operator takes the    *)
(* state b of __init__ = [pc, err, loc, self, lk], the file f read so far  *)
(* and the index c of the record just read, and gives the state at the     *)
(* next read of the stream (b.pc names the line of that read), or the      *)
(* failed state.                                                           *)

\* line 334 and line 338: the asserts before the result section
AtSteps(b, f, c) ==
    IF PosOf(f, c) % AWR # 0 THEN Fail(b, "AssertionError")
    ELSE IF f[c].typ # 2000 THEN Fail(b, "AssertionError")
    ELSE Goto(b, "l340")

\* line 332: the optional padding record after the surfaces
AtPad2(b, f, c) ==
    IF f[c].typ = 2001 THEN Goto(b, "l333") ELSE AtSteps(b, f, c)

\* lines 278 and 285 if a surface were entered in both dicts
PutSurfInBoth(b, surf) ==
    [b EXCEPT !.loc.surf = surf,
              !.self.dsurf = DictSet(@, b.loc.name, surf),
              !.self.rsurf = DictSet(@, b.loc.name, surf)]

\* self.dsurf[name] / self.rsurf[name] hold the dict surf itself, so what
\* __init__ does to surf later shows in them
PutSurf(b, surf) ==
    IF b.loc.stype = 1
    THEN [b EXCEPT !.loc.surf = surf,
                   !.self.dsurf = DictSet(@, b.loc.name, surf)]
    ELSE [b EXCEPT !.loc.surf = surf,
                   !.self.rsurf = DictSet(@, b.loc.name, surf)]

\* lines 271 to 294: a 1501 record is the current record
SurfHeader(b, f, c) ==
    LET r  == f[c]
        d  == RecordDtype(r.typ, r.len)
        bl == [b EXCEPT !.lk = d]
    IN  IF d.exc # "" THEN Fail(bl, d.exc)
        ELSE
        LET sdim    == r.dat[1]
            stype   == r.dat[2]
            nfacet  == r.dat[3]
            nmaster == r.dat[4]
            masters == SubSeq(r.dat, 5, Len(r.dat))
            bh == [bl EXCEPT !.loc.name = r.tag, !.loc.stype = stype,
                             !.loc.nfacet = nfacet]
        IN  IF ~(1 <= sdim /\ sdim <= 4) THEN Fail(bl, "AssertionError")
            ELSE IF ~(1 <= stype /\ stype <= 2) THEN Fail(bl, "AssertionError")
            ELSE IF stype = 1
            THEN IF r.len = 2 + 5 + nmaster /\ Len(masters) = nmaster
                 THEN Goto(PutSurf(bh, [sdim |-> sdim, msurf |-> masters,
                                        reference_node |-> 0,
                                        facet_block |-> <<>>]), "l292")
                 ELSE Fail(bl, "AssertionError")
            ELSE IF r.len = 2 + 5 /\ Len(masters) = 0
                 THEN Goto(PutSurf(bh, [sdim |-> sdim, msurf |-> <<>>,
                                        reference_node |-> nmaster,
                                        facet_block |-> <<>>]), "l292")
                 ELSE Fail(bl, "AssertionError")

\* line 270: while rtyp == 1501
AtSurfLoop(b, f, c) ==
    IF f[c].typ = 1501 THEN SurfHeader(b, f, c) ELSE AtPad2(b, f, c)

\* the check of the facet blocks without the count of line 329
FacetsOkUncounted(facet_block, nfacet) ==
    \A i \in 1..Len(facet_block) : IsSorted(Col(facet_block[i], "elnum"))

\* lines 324 to 329: the checks on the facet blocks of one surface
FacetsOk(facet_block, nfacet) ==
    /\ \A i \in 1..Len(facet_block) : IsSorted(Col(facet_block[i], "elnum"))
    /\ SumLen([i \in 1..Len(facet_block) |-> [len |-> Len(facet_block[i])]])
         = nfacet

\* lines 299 to 329: stream.send(()) at line 298 has returned record c,
\* the first one after the run of 1502 records that starts at loc.s
FacetRun(b, f, c) ==
    LET s    == b.loc.s
        rows == [i \in 1..(c - s) |-> FacetRow(f[s + i - 1])]
        surf == [b.loc.surf EXCEPT !.facet_block = Append(@, rows)]
        bs   == PutSurf(b, surf)
    IN  IF ~(f[s].len - 3 - 2 > 0) THEN Fail(b, "AssertionError")
        ELSE IF f[c].typ = 1502 THEN [bs EXCEPT !.loc.s = c]
        ELSE IF ~FacetsOk(surf.facet_block, b.loc.nfacet)
             THEN Fail(bs, "AssertionError")
        ELSE AtSurfLoop(bs, f, c)

\* line 295: the record after a 1501 record
AtFirstFacet(b, f, c) ==
    IF f[c].typ # 1502 THEN Fail(b, "AssertionError")
    ELSE [b EXCEPT !.loc.s = c, !.pc = "l298"]

\* line 264: the assert after the first optional padding record
AtAlign1(b, f, c) ==
    IF PosOf(f, c) % AWR # 0 THEN Fail(b, "AssertionError")
    ELSE AtSurfLoop(b, f, c)

\* line 262: the optional padding record after the heading
AtPad1(b, f, c) ==
    IF f[c].typ = 2001 THEN Goto(b, "l263") ELSE AtAlign1(b, f, c)

\* lines 257 to 259: the heading (its text is not modelled)
AtHeading(b, f, c) ==
    IF f[c].typ # 1922 THEN Fail(b, "AssertionError")
    ELSE [b EXCEPT !.self.heading = <<f[c].len - 2>>, !.pc = "l259"]

\* lines 253 and 254 without the assert of line 252
AtDofUnchecked(b, f, c) ==
    [b EXCEPT !.self.dof = LowU4(f[c].dat), !.pc = "l254"]

\* lines 252 to 254: active degrees of freedom
AtDof(b, f, c) ==
    IF f[c].typ # 1902 THEN Fail(b, "AssertionError")
    ELSE [b EXCEPT !.self.dof = LowU4(f[c].dat), !.pc = "l254"]

\* lines 245 to 249: label cross reference
AtLabel(b, f, c) ==
    IF f[c].typ = 1940
    THEN LET d == RecordDtype(f[c].typ, f[c].len) IN
         IF d.exc # "" THEN Fail([b EXCEPT !.lk = d], d.exc)
         ELSE [b EXCEPT !.lk = d, !.pc = "l249",
                        !.self.label = DictSet(@, f[c].num, f[c].tag)]
    ELSE AtDof(b, f, c)

\* lines 232 to 235: a node set starts
AtNset(b, f, c) ==
    IF f[c].typ = 1931
    THEN [b EXCEPT !.loc.label = f[c].tag, !.loc.arr = LowU4(f[c].dat),
                   !.pc = "l235"]
    ELSE AtLabel(b, f, c)

\* lines 237 to 241: the record after a 1931 or 1932 record
NsetStep(b, f, c) ==
    IF f[c].typ = 1932
    THEN [b EXCEPT !.loc.arr = @ \o LowU4(f[c].dat)]
    ELSE AtNset([b EXCEPT !.self.nset = DictSet(@, b.loc.label, b.loc.arr)],
                f, c)

\* lines 217 to 220: an element set starts
AtElset(b, f, c) ==
    IF f[c].typ = 1933
    THEN [b EXCEPT !.loc.label = f[c].tag, !.loc.arr = LowU4(f[c].dat),
                   !.pc = "l220"]
    ELSE AtNset(b, f, c)

\* the assert of line 227 if it let a member come twice
ElsetOkRepeating(arr) == IsSorted(arr)

\* whether an assembled element set passes the assert of line 227
ElsetOk(arr) == IsSortedStrict(arr)

\* lines 222 to 227 if a 1934 record replaced the members read so far
ElsetStepReplacing(b, f, c) ==
    IF f[c].typ = 1934
    THEN [b EXCEPT !.loc.arr = LowU4(f[c].dat)]
    ELSE LET bs == [b EXCEPT !.self.elset = DictSet(@, b.loc.label, b.loc.arr)]
         IN  IF ~ElsetOk(b.loc.arr) THEN Fail(bs, "AssertionError")
             ELSE AtElset(bs, f, c)

\* lines 222 to 227: the record after a 1933 or 1934 record
ElsetStep(b, f, c) ==
    IF f[c].typ = 1934
    THEN [b EXCEPT !.loc.arr = @ \o LowU4(f[c].dat)]
    ELSE LET bs == [b EXCEPT !.self.elset = DictSet(@, b.loc.label, b.loc.arr)]
         IN  IF ~ElsetOk(b.loc.arr) THEN Fail(bs, "AssertionError")
             ELSE AtElset(bs, f, c)

\* the assert of line 212 if it let a node number come twice
NodesOkRepeating(coord) == IsSorted(Col(coord, "nnum"))

\* the assert of line 212 on the node table
NodesOk(coord) == IsSortedStrict(Col(coord, "nnum"))


\* lines 209 to 212: stream.send(()) at line 208 has returned record c,
\* the first one after the run of 1901 records that starts at loc.s
NodeRun(b, f, c) ==
    LET s    == b.loc.s
        d    == RecordDtype(f[s].typ, f[s].len)
        rows == [i \in 1..(c - s) |-> NodeRow(f[s + i - 1])]
        bl   == [b EXCEPT !.lk = d]
    IN  IF d.exc # "" THEN Fail(bl, d.exc)
        ELSE IF ~NodesOk(rows) THEN Fail(bl, "AssertionError")
        ELSE AtElset([bl EXCEPT !.self.coord = rows], f, c)

\* line 206: the record after the element section
AtNode(b, f, c) ==
    IF f[c].typ # 1901 THEN Fail(b, "AssertionError")
    ELSE [b EXCEPT !.loc.s = c, !.pc = "l208"]

\* np.concat of the arrays of one element type (line 193): numpy joins
\* structured arrays only when their ninc fields have one width
ConcatOk(arrays) ==
    \A i, j \in 1..Len(arrays) :
        Len(arrays[i][1].ninc) = Len(arrays[j][1].ninc)

\* the assert of line 196 alone
FusedOkUnsorted(v) == \A i \in 1..Len(v) : v[i].eltyp = v[1].eltyp

\* the asserts of lines 196 and 197 on one fused block v
FusedOk(v) ==
    /\ \A i \in 1..Len(v) : v[i].eltyp = v[1].eltyp
    /\ IsSortedStrict(Col(v, "elnum"))

\* lines 193 to 202, then line 206: the element section has ended
Fuse(b, f, c) ==
    LET d == b.loc.elm IN
    IF \E i \in 1..Len(d) : ~ConcatOk(d[i].v) THEN Fail(b, "TypeError")
    ELSE LET elm == [i \in 1..Len(d) |-> Flatten(d[i].v)]
             bf  == [b EXCEPT !.self.elm = elm, !.loc.elm = <<>>]
         IN  IF \E i \in 1..Len(elm) : ~FusedOk(elm[i])
             THEN Fail(bf, "AssertionError")
             ELSE AtNode(bf, f, c)

\* line 166: while rtyp == 1900
AtElmLoop(b, f, c) ==
    IF f[c].typ = 1900 THEN [b EXCEPT !.loc.s = c, !.pc = "l168"]
    ELSE Fuse(b, f, c)

\* np.array([(elnum, eltyp, ninc)], dtype=dt) of line 186: numpy fills the
\* ninc field (width words) from n values only if n = width, or n = 1
FitsField(n, width) == n = width \/ n = 1

\* lines 182 to 190: a 1990 record is the current record
Continuation(b, f, c) ==
    LET eltyp == b.loc.eltyp
        k     == ElmIdx(b.loc.elm, eltyp)
        lst   == b.loc.elm[k].v
        last  == lst[Len(lst)]
    IN  IF Len(last) # 1 THEN Fail(b, "AssertionError")
        ELSE
        LET ninc  == last[1].ninc \o f[c].dat
            d     == RecordDtype(1900, Len(ninc) + 2)
            bl    == [b EXCEPT !.lk = d]
        IN  IF d.exc # "" THEN Fail(bl, d.exc)
            ELSE IF ~FitsField(Len(ninc), d.dt.sizes[3] \div 8)
                 THEN Fail(bl, "ValueError")
            ELSE [bl EXCEPT
                    !.loc.elm[k].v[Len(lst)] =
                        <<[elnum |-> last[1].elnum, eltyp |-> eltyp,
                           ninc |-> ninc]>>,
                    !.pc = "l190"]

\* line 181: while rtyp == 1990
AtCont(b, f, c) ==
    IF f[c].typ = 1990 THEN Continuation(b, f, c) ELSE AtElmLoop(b, f, c)

RECURSIVE AddComps(_, _, _)
\* the for loop of lines 175 to 178 over the sorted element types
AddComps(d, mesh, tags) ==
    IF tags = <<>> THEN d
    ELSE AddComps(ElmAppend(d, tags[1], SelectSeqBy(mesh, tags[1])),
                  mesh, Tail(tags))

\* the assert of line 177 on one mesh component
CompOk(mesh_comp) == IsSortedStrict(Col(mesh_comp, "elnum"))

\* lines 169 to 178, then line 181: stream.send(()) at line 168 has
\* returned record c, the first one after the run of 1900 records that
\* starts at loc.s.  The loop variable eltyp keeps its last value.
ElmRun(b, f, c) ==
    LET s    == b.loc.s
        d    == RecordDtype(f[s].typ, f[s].len)
        mesh == [i \in 1..(c - s) |-> ElmRow(f[s + i - 1])]
        tags == Unique(Col(mesh, "eltyp"))
        bl   == [b EXCEPT !.lk = d]
    IN  IF d.exc # "" THEN Fail(bl, d.exc)
        ELSE IF \E i \in 1..Len(tags) : ~CompOk(SelectSeqBy(mesh, tags[i]))
             THEN Fail(bl, "AssertionError")
        ELSE AtCont([bl EXCEPT !.loc.elm = AddComps(@, mesh, tags),
                               !.loc.eltyp = tags[Len(tags)]], f, c)

\* rstream's answer to send(()): it passes over the records that have the
\* type and length of the record the caller holds
SameKind(r1, r2) == r1.typ = r2.typ /\ r1.len = r2.len

\* line 168
ElmSend(b, f, c) ==
    IF SameKind(f[b.loc.s], f[c]) THEN b ELSE ElmRun(b, f, c)

\* line 208
NodeSend(b, f, c) ==
    IF SameKind(f[b.loc.s], f[c]) THEN b ELSE NodeRun(b, f, c)

\* line 298
FacetSend(b, f, c) ==
    IF SameKind(f[b.loc.s], f[c]) THEN b ELSE FacetRun(b, f, c)

\* lines 160 to 167 without the assert of line 163
AtFirstElmOrNode(b, f, c) == AtElmLoop([b EXCEPT !.loc.elm = <<>>], f, c)

\* lines 160 to 167: the record after the 1921 record
AtFirstElm(b, f, c) ==
    IF f[c].typ # 1900 THEN Fail(b, "AssertionError")
    ELSE [b EXCEPT !.loc.s = c, !.loc.elm = <<>>, !.pc = "l168"]

\* lines 154 to 159: the first record of the file
AtInfo(b, f, c) ==
    IF ~(PosOf(f, c) = 0 /\ f[c].typ = 1921) THEN Fail(b, "AssertionError")
    ELSE LET d == RecordDtype(f[c].typ, f[c].len) IN
         IF d.exc # "" THEN Fail([b EXCEPT !.lk = d], d.exc)
         ELSE [b EXCEPT !.lk = d, !.self.info = <<f[c].len - 2>>, !.pc = "l160"]

----------------------------------------------------------------------------
(* suanpan.ftnfil as abqfil.py uses it: the words of a record, the slice   *)
(* of an increment, incstart                                               *)

\* the payload words of a record, in file order
Payload(r) ==
    CASE r.typ = 1    -> <<r.num>> \o r.dat
      [] r.typ = 1911 -> <<r.num, r.tag>> \o r.dat
      [] r.typ \in {2000, 2001} -> [i \in 1..(r.len - 2) |-> 0]
      [] OTHER -> r.dat

\* the words of a record: its length, its type, its payload
Words(r) == <<r.len, r.typ>> \o Payload(r)

\* data.flat of a sequence of records
Flat(d) == Flatten([i \in 1..Len(d) |-> Words(d[i])])

\* incstart(data, pos // AWR): the indices in f, from record c on, of the
\* 2000 records that start a physical record
Boundaries(f, c) ==
    SortedSeq({k \in c..Len(f) : f[k].typ = 2000 /\ PosOf(f, k) % AWR = 0})

\* number of physical records of file f
NumBlocks(f) == (PosOf(f, Len(f) + 1) + AWR - 1) \div AWR

\* step_rec: the physical record index of every increment start, then the
\* number of physical records of the file
StepRec(f, c) ==
    LET bnd == Boundaries(f, c)
    IN  [i \in 1..Len(bnd) |-> PosOf(f, bnd[i]) \div AWR] \o <<NumBlocks(f)>>

\* self.fil["data"][lo:hi] for physical record indices lo and hi: the
\* records of f that lie in these physical records
Slice(f, lo, hi) ==
    LET ks == {k \in 1..Len(f) :
                 lo * AWR <= PosOf(f, k) /\ PosOf(f, k) < hi * AWR}
    IN  [i \in 1..Cardinality(ks) |-> f[SortedSeq(ks)[i]]]

----------------------------------------------------------------------------
(* AbqFil.get_step *)

\* next(stream) and stream.send(...) give index 0 at the end of the stream
NextIdx(d, k) == IF k < Len(d) THEN k + 1 ELSE 0

\* stream.send(stop): the first record after k whose type is in stop
SkipTo(d, k, stop) ==
    LET ks == {j \in (k + 1)..Len(d) : d[j].typ \in stop}
    IN  IF ks = {} THEN 0 ELSE CHOOSE j \in ks : \A i \in ks : j <= i

\* lines 413 to 416: where the scan of the first row stops, 0 if the
\* stream ends first.  It stops at a record of type 1 only.
ScanEnd(d, s) == SkipTo(d, s, {1})

\* lines 411 to 418: types, one (rkey, offset, data length) per record
\* from s + 1 to e - 1, then the sentinel
Types(d, s, e) ==
    [i \in 1..(e - s - 1) |->
        [rkey |-> d[s + i].typ, off |-> PosOf(d, s + i) - PosOf(d, s),
         dlen |-> d[s + i].len - 2]]
    \o <<[rkey |-> -1, off |-> PosOf(d, e) - PosOf(d, s), dlen |-> 0]>>

\* the nine fixed fields of lines 423 to 448, by their offset in words
FixedFields ==
    <<[name |-> "num",       off |-> 2], [name |-> "ipnum", off |-> 3],
      [name |-> "spnum",     off |-> 4], [name |-> "loc",   off |-> 5],
      [name |-> "rebarname", off |-> 6], [name |-> "ndi",   off |-> 7],
      [name |-> "nshr",      off |-> 8], [name |-> "ndir",  off |-> 9],
      [name |-> "nsfc",      off |-> 10]>>

\* lines 452 to 455: one field per entry of types[:-1], at 16 + o * 8 bytes
VarFields(types) ==
    [i \in 1..(Len(types) - 1) |->
        [rkey |-> types[i].rkey, off |-> 2 + types[i].off,
         dlen |-> types[i].dlen]]

\* np.dtype(dtdict) of line 457 refuses a field name given twice
NamesOk(types) ==
    \A i, j \in 1..(Len(types) - 1) : i # j => types[i].rkey # types[j].rkey

\* one row of data.flat[s_pos:pos].view(dt): the fixed fields and the
\* variable fields read from the words w of the row
Row(w, types) ==
    [num  |-> w[3], ipnum |-> w[4], spnum |-> w[5], loc |-> w[6],
     rebarname |-> w[7], ndi |-> w[8], nshr |-> w[9], ndir |-> w[10],
     nsfc |-> w[11],
     R |-> [i \in 1..(Len(types) - 1) |->
              SubSeq(w, 2 + types[i].off + 1, 2 + types[i].off + types[i].dlen)]]

\* the asserts of lines 470 to 473 if the loop of line 472 left out nsfc
RowsOkButNsfc(r) ==
    /\ IsSorted(Col(r, "num"))
    /\ \A k \in {"loc", "ndi", "nshr", "ndir"} :
           \A i \in 1..Len(r) : r[i][k] = r[1][k]

\* the asserts of lines 470 to 473 on the rows r of a block
RowsOk(r) ==
    /\ IsSorted(Col(r, "num"))
    /\ \A k \in {"loc", "ndi", "nshr", "ndir", "nsfc"} :
           \A i \in 1..Len(r) : r[i][k] = r[1][k]

\* outcome of the generator code between two yields
Yield(k, blk)   == [st |-> "yield", k |-> k, blk |-> blk, exc |-> ""]
Return(k)       == [st |-> "done", k |-> k, blk |-> <<>>, exc |-> ""]
Raise(k, e)     == [st |-> "failed", k |-> k, blk |-> <<>>, exc |-> e]

\* the code of a request if the end of the stream in the scan of the first
\* row ended the iteration quietly
RequestBodyQuietEnd(d, h, s) ==
    IF d[s].typ = 1 /\ SkipTo(d, s, {1}) = 0 THEN Return(s)
    ELSE Raise(s, "AssertionError")

\* lines 403 to 476: record s of d, the record after a request header h,
\* is neither 1911 nor 2001
RequestBody(d, h, s) ==
    IF d[s].typ # 1 THEN Raise(s, "AssertionError")
    ELSE LET e == ScanEnd(d, s) IN
    \* the stream ends inside the generator: PEP 479 makes it RuntimeError
    IF e = 0 THEN Raise(s, "RuntimeError")
    ELSE LET types == Types(d, s, e)
             size  == types[Len(types)].off
             stop  == SkipTo(d, e, {1911, 2001})
         IN
    IF types[1].off # 11 THEN Raise(e, "AssertionError")
    ELSE IF ~NamesOk(types) THEN Raise(e, "ValueError")
    ELSE IF stop = 0 THEN Raise(e, "RuntimeError")
    ELSE LET span == PosOf(d, stop) - PosOf(d, s)
             flat == Flat(SubSeq(d, s, stop - 1))
         IN
    \* view(dt) needs a whole number of rows
    IF span % size # 0 THEN Raise(stop, "ValueError")
    ELSE LET r == [i \in 1..(span \div size) |->
                     Row(SubSeq(flat, (i - 1) * size + 1, i * size), types)]
         IN
    IF ~RowsOk(r) THEN Raise(stop, "AssertionError")
    ELSE Yield(stop, [flag |-> d[h].num, set |-> d[h].tag,
                      eltype |-> d[h].dat[1], s_pos |-> PosOf(d, s),
                      names |-> [i \in 1..(Len(types) - 1) |-> types[i].rkey],
                      data |-> r])

\* whether the record after a request header makes the request an empty
\* one (line 399)
IsEmptyRequest(r) == r.typ = 1911 \/ r.typ = 2001

\* the output kind get_step decodes (line 387)
IsElementOutput(outtyp) == outtyp = 0

\* the loop over the 1911 records if it gave a block without rows for an
\* empty request
RequestsWithEmpty(d, k) ==
    IF d[k].typ = 2001 THEN Return(k)
    ELSE IF d[k].typ # 1911 THEN Raise(k, "AssertionError")
    ELSE LET dt == RecordDtype(d[k].typ, d[k].len) IN
    IF dt.exc # "" THEN Raise(k, dt.exc)
    ELSE IF ~IsElementOutput(d[k].num) THEN Raise(k, "NotImplementedError")
    ELSE LET s == NextIdx(d, k) IN
    IF s = 0 THEN Raise(k, "RuntimeError")
    ELSE IF IsEmptyRequest(d[s])
         THEN Yield(s, [flag |-> d[k].num, set |-> d[k].tag,
                        eltype |-> d[k].dat[1], s_pos |-> PosOf(d, s),
                        names |-> <<>>, data |-> <<>>])
    ELSE RequestBody(d, k, s)

RECURSIVE Requests(_, _)
\* the loop over the 1911 records if it passed over a record that is
\* neither a 1911 nor a 2001 record to the next one that is
RequestsLenient(d, k) ==
    IF d[k].typ = 2001 THEN Return(k)
    ELSE IF d[k].typ # 1911
         THEN IF SkipTo(d, k, {1911, 2001}) = 0 THEN Raise(k, "RuntimeError")
              ELSE Requests(d, SkipTo(d, k, {1911, 2001}))
    ELSE LET dt == RecordDtype(d[k].typ, d[k].len) IN
    IF dt.exc # "" THEN Raise(k, dt.exc)
    ELSE IF ~IsElementOutput(d[k].num) THEN Raise(k, "NotImplementedError")
    ELSE LET s == NextIdx(d, k) IN
    IF s = 0 THEN Raise(k, "RuntimeError")
    ELSE IF IsEmptyRequest(d[s]) THEN Requests(d, s)
    ELSE RequestBody(d, k, s)

\* lines 380 to 476: the loop over the 1911 records, with record k of d the
\* current record, up to the next yield, the return or an exception
Requests(d, k) ==
    IF d[k].typ = 2001 THEN Return(k)
    ELSE IF d[k].typ # 1911 THEN Raise(k, "AssertionError")
    ELSE LET dt == RecordDtype(d[k].typ, d[k].len) IN
    IF dt.exc # "" THEN Raise(k, dt.exc)
    ELSE IF ~IsElementOutput(d[k].num) THEN Raise(k, "NotImplementedError")
    ELSE LET s == NextIdx(d, k) IN
    IF s = 0 THEN Raise(k, "RuntimeError")
    ELSE IF IsEmptyRequest(d[s]) THEN Requests(d, s)
    ELSE RequestBody(d, k, s)

\* the start of the generator if it did not pass over the 2000 record
StartAtFirst(d) ==
    IF Len(d) = 0 THEN Raise(0, "RuntimeError")
    ELSE IF d[1].typ # 2000 THEN Raise(1, "AssertionError")
    ELSE Requests(d, 1)

\* lines 371 to 377: the start of the generator, up to the loop
Start(d) ==
    IF Len(d) = 0 THEN Raise(0, "RuntimeError")
    ELSE IF d[1].typ # 2000 THEN Raise(1, "AssertionError")
    ELSE IF NextIdx(d, 1) = 0 THEN Raise(1, "RuntimeError")
    ELSE Requests(d, 2)

----------------------------------------------------------------------------
(* The files the model reads.  __init__ reads its file record by record,   *)
(* so the records of the header section are chosen as they are read; the   *)
(* result section is chosen when incstart scans it.                        *)

Nums == 1..MaxNum

\* element type tags (8 byte texts, here by their rank in byte order)
ElTyps == {1, 2}

\* set labels and surface names
Labels == {1, 2}

\* record types out of place: at every read __init__ compares the type of
\* the record with those it goes on with there and with nothing else, so
\* the first record of a file, the last record of a header section and a
\* type no file has stand for every other type
OtherTypes == {1921, 2000, 9999}

\* length of a record at word position p that ends on a physical record
\* boundary after `more` further words
PadLen(p, more) ==
    LET q == AWR - ((p + more) % AWR) IN IF q < 3 THEN q + AWR ELSE q

\* the records of type t that may stand at word position p
Variants(t, p) ==
    CASE t = 1921 -> {Rec(1921, 9, 0, 0, <<>>), Rec(1921, 8, 0, 0, <<>>)}
      [] t = 1900 -> {Rec(1900, 4 + n, e, g, [i \in 1..n |-> i]) :
                         e \in Nums, g \in ElTyps, n \in {1, 2}}
      [] t = 1990 -> {Rec(1990, 3, 0, 0, <<3>>)}
      [] t = 1901 -> {Rec(1901, l, n, 0, <<>>) : n \in Nums, l \in {5, 6}}
      [] t = 1933 -> {Rec(1933, 4, 0, g, <<n>>) : g \in Labels, n \in Nums}
      [] t = 1934 -> {Rec(1934, 3, 0, 0, <<n>>) : n \in Nums}
      [] t = 1931 -> {Rec(1931, 4, 0, g, <<n>>) : g \in Labels, n \in Nums}
      [] t = 1932 -> {Rec(1932, 3, 0, 0, <<n>>) : n \in Nums}
      [] t = 1940 -> {Rec(1940, 4, 1, 1, <<>>)}
      [] t = 1902 -> {Rec(1902, 5, 0, 0, <<>>)}
      [] t = 1922 -> {Rec(1922, 12, 0, 0, <<>>)}
      [] t = 2001 -> {Rec(2001, PadLen(p, 0), 0, 0, <<>>),
                      Rec(2001, 3, 0, 0, <<>>)}
      [] t = 1501 -> {Rec(1501, 7 + m, 0, 1, <<2, st, nf, m>> \o [i \in 1..m |-> 2]) :
                         st \in {1, 2}, nf \in {1, 2}, m \in {0, 1}}
      [] t = 1502 -> {Rec(1502, l, n, 0, <<>>) : n \in Nums, l \in {6, 7}}
      [] t = 2000 -> {Rec(2000, 23, 0, 0, <<>>)}
      [] OTHER    -> {Rec(t, 3, 0, 0, <<0>>)}

\* the record types __init__ goes on with at the read of line l
Expect(l) ==
    CASE l = "l154" -> {1921}
      [] l = "l160" -> {1900}
      [] l = "l168" -> {1900, 1990, 1901}
      [] l = "l190" -> {1900, 1990, 1901}
      [] l = "l208" -> {1901, 1933, 1931, 1940, 1902}
      [] l = "l220" -> {1934, 1933, 1931, 1940, 1902}
      [] l = "l235" -> {1932, 1931, 1940, 1902}
      [] l = "l249" -> {1940, 1902}
      [] l = "l254" -> {1922}
      [] l = "l259" -> {2001, 1501, 2000}
      [] l = "l263" -> {2001, 1501, 2000}
      [] l = "l292" -> {1502}
      [] l = "l298" -> {1502, 1501, 2001, 2000}
      [] l = "l333" -> {2000}

\* number of records of f whose type is in T
Count(f, T) == Cardinality({k \in 1..Len(f) : f[k].typ \in T})

\* the one element record and the one node record of the least header
\* section
PlainElm == Rec(1900, 5, 1, 1, <<1>>)

PlainNode == Rec(1901, 5, 1, 0, <<>>)

\* the sections of f that hold other records than the least header section
\* does (which has the plain element record, the plain node record, and no
\* set, label or surface)
RichIn(f) ==
    {T \in {{1900, 1990}, {1901}} :
        \E k \in 1..Len(f) : f[k].typ \in T /\ f[k] \notin {PlainElm, PlainNode}}
    \cup {T \in {{1900, 1990}, {1901}} : Count(f, T) > 1}
    \cup {T \in {{1933, 1934}, {1931, 1932}, {1940}, {1501, 1502}} :
             Count(f, T) > 0}

\* a heading that ends on a physical record boundary, so that no padding
\* record is needed after it: it comes in the files that hold what the
\* least header section does
LongHeading(f) ==
    IF RichIn(f) = {}
    THEN {Rec(1922, PadLen(PosOf(f, Len(f) + 1), 0), 0, 0, <<>>)}
    ELSE {}

\* a node record right behind the 1921 record: a file without elements
NodeFirst(l) == IF l = "l160" THEN {PlainNode} ELSE {}

\* 1501 records of one facet whose fourth attribute is free of the record
\* length, and whose type attribute may be one that line 276 refuses
SurfOdd(l) ==
    IF 1501 \in Expect(l)
    THEN {Rec(1501, 7 + m, 0, g, <<2, st, 1, nm>> \o [i \in 1..m |-> 2]) :
             g \in Labels, st \in {1, 2, 3}, nm \in {0, 1}, m \in {0, 1}}
    ELSE {}

\* the records tried at the read of line l behind the records f: every
\* variant of the types __init__ goes on with there, and one record of
\* each type out of place
Inputs(l, f) ==
    LET p == PosOf(f, Len(f) + 1) IN
    UNION {Variants(t, p) : t \in Expect(l)}
    \cup {CHOOSE r \in Variants(t, p) : TRUE : t \in OtherTypes \ Expect(l)}
    \cup (IF 1922 \in Expect(l) THEN LongHeading(f) ELSE {})
    \cup NodeFirst(l)
    \cup SurfOdd(l)

\* the records of the result section
RInc == Rec(2000, 23, 0, 0, <<>>)

\* a request header: out_type, out_set, out_element
RReq(ot) == Rec(1911, 5, ot, 1, <<1>>)

\* a request header that is one word too long
RReqLong == Rec(1911, 6, 0, 1, <<1, 0>>)

\* an element header: num, then ipnum, spnum, loc, rebarname, ndi, nshr,
\* ndir, nsfc
RHdr(n) == Rec(1, 11, n, 0, <<1, 0, 0, 0, 3, 3, 3, 0>>)

\* an output variable record with one value
RVar == Rec(11, 3, 0, 0, <<5>>)

\* a record of a type no Abaqus file has, in the place of an output
\* variable record
ROdd == Rec(9999, 3, 0, 0, <<7>>)

\* the end of increment record: it fills the physical record
REnd(p) == Rec(2001, PadLen(p, 0), 0, 0, <<>>)

\* the rows a request may have: none, one or two, each of an element
\* header alone or of a header and one record after it
RowSeqs ==
    {<<>>} \cup {<<RHdr(1), v>> : v \in {RVar, ROdd}}
    \cup {<<RHdr(n), RHdr(m)>> : n, m \in Nums}
    \cup {<<RHdr(1), RVar, RHdr(2), RVar>>, <<RHdr(1), ROdd, RHdr(1), RVar>>,
          <<RHdr(1), RVar, RHdr(1), ROdd>>}

\* a request of at most m records
RequestsUpTo(m) ==
    {<<RReq(ot)>> \o rows : ot \in {0, 1},
                            rows \in {x \in RowSeqs : Len(x) + 1 <= m}}
    \cup {<<RReqLong>> : i \in 1..m}

RECURSIVE ReqSeqs(_)
\* sequences of requests of at most m records in all
ReqSeqs(m) ==
    {<<>>} \cup UNION {{rq \o rest : rest \in ReqSeqs(m - Len(rq))} :
                          rq \in RequestsUpTo(m)}

\* rows without a request header, of at most m records
Headless(m) == IF m >= 2 THEN {<<RHdr(1), RVar>>} ELSE {}

\* an increment of at most m records: start, requests, end
Increments(m) ==
    IF m < 2 THEN {}
    ELSE {<<RInc>> \o body \o <<REnd(SumLen(<<RInc>> \o body))>> :
             body \in ReqSeqs(m - 2) \cup Headless(m - 2)}

RECURSIVE Sections(_)
\* a result section of at most m records: one increment or more
Sections(m) ==
    UNION {{inc \o rest : rest \in {<<>>} \cup Sections(m - Len(inc))} :
              inc \in Increments(m)}

----------------------------------------------------------------------------
(* The state machine *)

NoLk == [rtyp |-> 0, rlen |-> 0, exc |-> "", msg |-> <<>>, dt |-> <<>>]

NoIt == [st |-> "idle", istep |-> 0, k |-> 0, out |-> <<>>, exc |-> "",
         calls |-> 0]

Init ==
    /\ fil = <<>>
    /\ cur = 0
    /\ pc = "l154"
    /\ err = ""
    /\ loc = NoLoc
    /\ self = NoSelf
    /\ it = NoIt
    /\ other = NoIt
    /\ seen = <<>>
    /\ lk = NoLk

B == [pc |-> pc, err |-> err, loc |-> loc, self |-> self, lk |-> lk]

Set(b) ==
    /\ pc' = b.pc
    /\ err' = b.err
    /\ loc' = b.loc
    /\ self' = b.self
    /\ lk' = b.lk

Set0(b) ==
    /\ pc = b.pc
    /\ err = b.err
    /\ loc = b.loc
    /\ self = b.self
    /\ lk = b.lk

\* the files read: f, with n records other than padding in its header
\* section once the records __init__ still needs are there, holds no more
\* records of a section than the bounds say, and more than MaxMixRecs
\* records only if it is rich in one section alone
WithinCaps(f, n) ==
    /\ Count(f, {1900, 1990}) <= MaxElmRecs
    /\ Count(f, {1901}) <= MaxNodeRecs
    /\ Count(f, {1933, 1934}) <= MaxSetRecs
    /\ Count(f, {1931, 1932}) <= MaxSetRecs
    /\ Count(f, {1501, 1502}) <= MaxSurfRecs
    /\ n <= MaxHdrRecs
    /\ n > MaxMixRecs => Cardinality(RichIn(f)) <= 1

\* the least number of records __init__ still reads, the first 2000 record
\* included, when it stands at the read of line l
ToGo(l) ==
    CASE l \in {"l160"} -> 5
      [] l \in {"l168", "l190"} -> 4
      [] l \in {"l208", "l220", "l235", "l249"} -> 3
      [] l \in {"l254", "l292"} -> 2
      [] l \in {"l259", "l263", "l298", "l333"} -> 1
      [] OTHER -> 0

\* the code of __init__ that follows the read of line l, up to the next read
AfterRead(l, b, f, p) ==
    CASE l = "l154" -> AtInfo(b, f, p)
      [] l = "l160" -> AtFirstElm(b, f, p)
      [] l = "l168" -> ElmSend(b, f, p)
      [] l = "l190" -> AtCont(b, f, p)
      [] l = "l208" -> NodeSend(b, f, p)
      [] l = "l220" -> ElsetStep(b, f, p)
      [] l = "l235" -> NsetStep(b, f, p)
      [] l = "l249" -> AtLabel(b, f, p)
      [] l = "l254" -> AtHeading(b, f, p)
      [] l = "l259" -> AtPad1(b, f, p)
      [] l = "l263" -> AtAlign1(b, f, p)
      [] l = "l292" -> AtFirstFacet(b, f, p)
      [] l = "l298" -> FacetSend(b, f, p)
      [] l = "l333" -> AtSteps(b, f, p)

\* the read of the stream at line l of __init__ and the code that
\* follows it up to the next read; the stream may have ended.  The files
\* read are those whose header section has at most MaxHdrRecs records.
ReadAt(l) ==
    /\ pc = l
    /\ \/ \E r \in Inputs(l, fil) :
             LET f == Append(fil, r)
                 b == AfterRead(l, B, f, Len(f))
             IN  /\ WithinCaps(f, Len(f) - Count(f, {2001}) + ToGo(b.pc))
                 /\ fil' = f
                 /\ cur' = Len(f)
                 /\ Set(b)
       \/ /\ Set(Fail(B, "StopIteration"))
          /\ UNCHANGED <<fil, cur>>
    /\ UNCHANGED <<it, other, seen>>

ReadInfo       == ReadAt("l154")
ReadFirstElm   == ReadAt("l160")
ReadElmRun     == ReadAt("l168")
ReadAfterCont  == ReadAt("l190")
ReadNodeRun    == ReadAt("l208")
ReadInElset    == ReadAt("l220")
ReadInNset     == ReadAt("l235")
ReadAfterLabel == ReadAt("l249")
ReadAfterDof   == ReadAt("l254")
ReadAfterHeading == ReadAt("l259")
ReadAfterPad1  == ReadAt("l263")
ReadAfterSurf  == ReadAt("l292")
ReadFacetRun   == ReadAt("l298")
ReadAfterPad2  == ReadAt("l333")

\* lines 340 to 343 with a result section drawn from S
IncStartOf(S) ==
    /\ pc = "l340"
    /\ \E rs \in S :
          LET f  == SubSeq(fil, 1, cur - 1) \o rs
              sr == StepRec(f, cur)
              d  == RecordDtype(fil[cur].typ, fil[cur].len)
              st == [i \in 1..Len(Boundaries(f, cur)) |-> <<d.dt.itemsize \div AWL>>]
              b  == [B EXCEPT !.lk = d]
          IN  /\ rs[1] = fil[cur]
              /\ fil' = f
              /\ IF d.exc # "" THEN Set(Fail(b, d.exc))
                 ELSE IF Len(sr) # Len(st) + 1
                      THEN Set(Fail(b, "AssertionError"))
                 ELSE Set([b EXCEPT !.self.step = st, !.self.step_rec = sr,
                                    !.pc = "ready"])
              /\ seen' = [i \in 1..Len(st) |-> <<>>]
    /\ UNCHANGED <<cur, it, other>>

\* lines 340 to 343 with a result section of at most m records
IncStartUpTo(m) == IncStartOf(Sections(m))

IncStart == IncStartUpTo(MaxResRecs)

IncStartLong == IncStartUpTo(MaxStepRecs)

\* the record types _record_dtype is called with on its own: those of its
\* match statement, the other types of a file, and a type no file has
LkTypes ==
    {1501, 1900, 1901, 1911, 1921, 1940, 2000}
    \cup {1, 11, 1502, 1902, 1922, 1931, 1932, 1933, 1934, 1990, 2001, 9999}

\* a call of _record_dtype(rtyp, rlen) by a client of the module, in
\* place of what __init__ does at line l
LookupAt(l) ==
    /\ pc = l
    /\ \E rtyp \in LkTypes, rlen \in 2..MaxRlen :
          lk' = RecordDtype(rtyp, rlen)
    /\ pc' = "lookup"
    /\ UNCHANGED <<fil, cur, err, loc, self, it, other, seen>>

Lookup == LookupAt("l154")

LookupStep == LookupAt("l340")

\* a generator object that goes on where the one held before stood
NewItShared(old, istep) ==
    [old EXCEPT !.st = "new", !.istep = istep, !.calls = @ + 1]

\* the generator object a call of get_step gives: nothing has run yet
NewIt(old, istep) ==
    [st |-> "new", istep |-> istep, k |-> 0, out |-> <<>>, exc |-> "",
     calls |-> old.calls + 1]

\* abq.get_step(istep), at most n times: any generator held before is
\* dropped
GetStepCallUpTo(n) ==
    /\ pc = "ready"
    /\ it.calls < n
    /\ \E istep \in 0..(Len(self.step) - 1) : it' = NewIt(it, istep)
    /\ UNCHANGED <<fil, cur, pc, err, loc, self, other, seen, lk>>

GetStepOnce == GetStepCallUpTo(1)

GetStepCall == GetStepCallUpTo(MaxCalls)

\* step_rec[i] of line 371: a Python sequence counts a negative index
\* from its end; -1 stands for the IndexError of an index out of range
\* (every member of step_rec is 0 or more)
Subscript(s, i) ==
    IF 0 <= i /\ i < Len(s) THEN s[i + 1]
    ELSE IF -Len(s) <= i /\ i < 0 THEN s[Len(s) + i + 1]
    ELSE -1

\* both subscripts of line 371 are within step_rec
IndexOk(step_rec, istep) ==
    Subscript(step_rec, istep) # -1 /\ Subscript(step_rec, istep + 1) # -1

\* line 371: the slice of the increment
StepData(f, step_rec, istep) ==
    Slice(f, Subscript(step_rec, istep), Subscript(step_rec, istep + 1))

\* the generator after its code has run to res
Resume(g, res) ==
    CASE res.st = "yield" ->
            [g EXCEPT !.st = "run", !.k = res.k, !.out = Append(@, res.blk)]
      [] res.st = "done" -> [g EXCEPT !.st = "done", !.k = res.k]
      [] OTHER -> [g EXCEPT !.st = "failed", !.k = res.k, !.exc = res.exc]

\* what a finished iteration gave: its blocks and how it ended
Outcome(g) == [out |-> g.out, st |-> g.st, exc |-> g.exc]

\* the stream of generator g if the generators of an object read one
\* stream: another generator o on the same increment moves it too
CursorShared(g, o) ==
    IF o.st = "run" /\ o.istep = g.istep /\ o.k > g.k THEN o.k ELSE g.k

\* the record at which generator g goes on: that of its own stream (line
\* 372); no other generator o has a part in it
Cursor(g, o) == g.k

\* generator g after next(), with o the other generator held
NextOf(g, o) ==
    LET d   == StepData(fil, self.step_rec, g.istep)
        res == IF g.st = "new"
               THEN IF IndexOk(self.step_rec, g.istep) THEN Start(d)
                    ELSE Raise(0, "IndexError")
               ELSE Requests(d, Cursor(g, o))
    IN  Resume(g, res)

\* the object after a next() if get_step let go of the step record of an
\* increment it has iterated to its end
SelfAfterReleasing(slf, g) ==
    IF g.st = "done" THEN [slf EXCEPT !.step[g.istep + 1] = <<>>] ELSE slf

\* the object after a next() that left generator g: get_step assigns no
\* attribute of self
SelfAfter(slf, g) == slf

\* next() on the generator: its code runs to the next yield, to its
\* return or to an exception
GetStepNext ==
    /\ pc = "ready"
    /\ it.st \in {"new", "run"}
    /\ LET g == NextOf(it, other)
       IN  /\ it' = g
           /\ self' = SelfAfter(self, g)
           /\ seen' = IF /\ g.st \in {"done", "failed"}
                         /\ g.istep \in 0..(Len(seen) - 1)
                         /\ seen[g.istep + 1] = <<>>
                      THEN [seen EXCEPT ![g.istep + 1] =
                                <<[res |-> Outcome(g), by |-> g.calls]>>]
                      ELSE seen
    /\ UNCHANGED <<fil, cur, pc, err, loc, other, lk>>

Next ==
    \/ ReadInfo \/ ReadFirstElm \/ ReadElmRun \/ ReadAfterCont
    \/ ReadNodeRun \/ ReadInElset \/ ReadInNset \/ ReadAfterLabel
    \/ ReadAfterDof \/ ReadAfterHeading \/ ReadAfterPad1 \/ ReadAfterSurf
    \/ ReadFacetRun \/ ReadAfterPad2 \/ IncStart
    \/ GetStepOnce \/ GetStepNext \/ Lookup

\* __init__ on every file of the bounds, then one get_step
Spec == Init /\ [][Next]_vars

\* what __init__ does with record c, by the line of the read that gave it
Handle(b, f, c) ==
    CASE b.pc = "l154" -> AtInfo(b, f, c)
      [] b.pc = "l160" -> AtFirstElm(b, f, c)
      [] b.pc = "l168" -> ElmSend(b, f, c)
      [] b.pc = "l190" -> AtCont(b, f, c)
      [] b.pc = "l208" -> NodeSend(b, f, c)
      [] b.pc = "l220" -> ElsetStep(b, f, c)
      [] b.pc = "l235" -> NsetStep(b, f, c)
      [] b.pc = "l249" -> AtLabel(b, f, c)
      [] b.pc = "l254" -> AtHeading(b, f, c)
      [] b.pc = "l259" -> AtPad1(b, f, c)
      [] b.pc = "l263" -> AtAlign1(b, f, c)
      [] b.pc = "l292" -> AtFirstFacet(b, f, c)
      [] b.pc = "l298" -> FacetSend(b, f, c)
      [] b.pc = "l333" -> AtSteps(b, f, c)
      [] OTHER -> b

RECURSIVE Build(_, _, _)
\* __init__ on the records c, c + 1, ... of f, from state b
Build(b, f, c) ==
    IF c > Len(f) THEN b
    ELSE Build(Handle(b, SubSeq(f, 1, c), c), f, c + 1)

\* the least header section: one element, one node, a padding record, and
\* the first 2000 record
MinHeader ==
    <<Rec(1921, 9, 0, 0, <<>>), PlainElm, PlainNode, Rec(1902, 5, 0, 0, <<>>),
      Rec(1922, 12, 0, 0, <<>>), Rec(2001, PadLen(36, 0), 0, 0, <<>>), RInc>>

\* __init__ has read MinHeader and stands at line 340
InitStep ==
    /\ fil = MinHeader
    /\ cur = Len(MinHeader)
    /\ Set0(Build([pc |-> "l154", err |-> "", loc |-> NoLoc, self |-> NoSelf,
                   lk |-> NoLk], MinHeader, 1))
    /\ it = NoIt
    /\ other = NoIt
    /\ seen = <<>>

NextStep == IncStartLong \/ GetStepCall \/ GetStepNext \/ LookupStep

\* the result sections of the bounds behind MinHeader, and get_step on them
SpecStep == InitStep /\ [][NextStep]_vars

----------------------------------------------------------------------------
(* The order of the records of the header section *)

\* the record types __init__ has read so far: up to the first 2000 record
\* once it has got there
HeaderTypes ==
    [i \in 1..(IF pc \in {"l340", "ready"} THEN cur ELSE Len(fil)) |->
        fil[i].typ]

\* the order of the header section as an automaton: the state after
\* record type t is read in state q ("rej" once a record is out of order)
OrderStep(q, t) ==
    CASE q = "start"    /\ t = 1921 -> "info"
      [] q = "info"     /\ t = 1900 -> "elm"
      [] q = "elm"      /\ t = 1900 -> "elm"
      [] q = "elm"      /\ t = 1990 -> "cont"
      [] q = "cont"     /\ t = 1900 -> "elm"
      [] q \in {"elm", "cont"} /\ t = 1901 -> "node"
      [] q = "node"     /\ t = 1901 -> "node"
      [] q \in {"node", "elset"} /\ t = 1933 -> "elset"
      [] q = "elset"    /\ t = 1934 -> "elset"
      [] q \in {"node", "elset", "nset"} /\ t = 1931 -> "nset"
      [] q = "nset"     /\ t = 1932 -> "nset"
      [] q \in {"node", "elset", "nset", "label"} /\ t = 1940 -> "label"
      [] q \in {"node", "elset", "nset", "label"} /\ t = 1902 -> "dof"
      [] q = "dof"      /\ t = 1922 -> "heading"
      [] q = "heading"  /\ t = 2001 -> "pad1"
      [] q \in {"heading", "pad1", "facet"} /\ t = 1501 -> "surf"
      [] q \in {"surf", "facet"} /\ t = 1502 -> "facet"
      [] q \in {"pad1", "facet"} /\ t = 2001 -> "pad2"
      [] q \in {"heading", "pad1", "facet", "pad2"} /\ t = 2000 -> "steps"
      [] OTHER -> "rej"

RECURSIVE OrderRun(_, _)
\* the state of the automaton after the record types ts, from state q
OrderRun(q, ts) ==
    IF ts = <<>> THEN q ELSE OrderRun(OrderStep(q, ts[1]), Tail(ts))

\* C1: __init__ gets to the result section, and an AbqFil object is made,
\* only for files whose record types follow the order 1921, 1900 records
\* (each with an optional 1990), 1901, element sets (1933 then 1934*), node
\* sets (1931 then 1932*), 1940*, 1902, 1922, optional 2001, surfaces (1501
\* then 1502+), optional 2001, 2000; and once a record out of this order is
\* read, __init__ has ended with an exception and no object is made.
C1_RecordOrder ==
    /\ pc \in {"l340", "ready"} => OrderRun("start", HeaderTypes) = "steps"
    /\ OrderRun("start", HeaderTypes) = "rej" =>
          pc = "failed" /\ err # "" /\ self = NoSelf

\* an object is made of a file with an element set of two records
C1_Witness ==
    /\ pc = "ready"
    /\ \E k \in 1..cur : fil[k].typ = 1934

----------------------------------------------------------------------------
(* The schema lookup and the records of an increment *)

\* the (type, length) pairs of the cases of _record_dtype's match statement
SupportedPair(rtyp, rlen) ==
    \/ rtyp = 1501 /\ rlen >= 7
    \/ rtyp = 1900 /\ rlen >= 5
    \/ rtyp = 1901 /\ rlen >= 4
    \/ rtyp = 1911 /\ rlen = 5
    \/ rtyp = 1921 /\ rlen = 9
    \/ rtyp = 1940 /\ rlen >= 4
    \/ rtyp = 2000 /\ rlen = 23

\* the records of the increment the generator is iterating
ItData == StepData(fil, self.step_rec, it.istep)

\* the index in d of the record at word position p
IdxAt(d, p) == CHOOSE k \in 1..Len(d) : PosOf(d, k) = p

\* the indices in d of the records a yielded block spans: from its first
\* element header up to the next 1911 or 2001 record
BlockSpan(d, blk) ==
    LET s == IdxAt(d, blk.s_pos) IN s..(SkipTo(d, s, {1911, 2001}) - 1)

\* every call of _record_dtype gives a layout of the payload's size for a
\* supported pair, and a ValueError with the pair in its message and no
\* layout for any other pair
LookupOk ==
    lk.rtyp # 0 =>
        IF SupportedPair(lk.rtyp, lk.rlen)
        THEN lk.exc = "" /\ lk.dt.itemsize = (lk.rlen - 2) * AWL
        ELSE lk.exc = "ValueError" /\ lk.msg = <<lk.rtyp, lk.rlen>>
             /\ lk.dt = <<>>

\* get_step yields no block for a request whose header is not of a
\* supported pair, and it does not get to the end of an increment that
\* has such a header
HeaderLookedUp ==
    pc = "ready" /\ it.st \in {"run", "done", "failed"} =>
        LET d == ItData IN
        /\ \A i \in 1..Len(it.out) :
               LET h == IdxAt(d, it.out[i].s_pos) - 1
               IN  SupportedPair(d[h].typ, d[h].len)
        /\ it.st = "done" =>
              \A k \in 1..Len(d) :
                  d[k].typ = 1911 => SupportedPair(d[k].typ, d[k].len)

\* the record types of row data: the element header and the output
\* variable record of the model's files
RowKinds == {1, 11}

\* every record a yielded block spans is an element header or an output
\* variable record
RowsOfKnownKinds ==
    pc = "ready" /\ it.st \in {"run", "done", "failed"} =>
        \A i \in 1..Len(it.out) :
            \A k \in BlockSpan(ItData, it.out[i]) : ItData[k].typ \in RowKinds

----------------------------------------------------------------------------
(* The blocks of an increment *)

\* the indices in d of the request headers
Headers(d) == {k \in 1..Len(d) : d[k].typ = 1911}

\* the index in d of the request header of a yielded block: the record
\* before the first record of its rows
HeaderOf(d, blk) == IdxAt(d, blk.s_pos) - 1

\* whether the generator has run: it holds what was yielded so far
Iterated == pc = "ready" /\ it.st \in {"run", "done", "failed"}

\* C3 (amended): get_step yields at most one block per request header, in
\* on-disk order, each with the flag, set and element type of its header,
\* and only for request headers that an element header follows: an empty
\* request (a request header followed by another request header or by the
\* end marker) is passed over and gets no block.
C3_BlocksOfRequests ==
    Iterated =>
        LET d == ItData
            h == [i \in 1..Len(it.out) |-> HeaderOf(d, it.out[i])]
        IN  /\ \A i \in 1..Len(h) :
                   /\ h[i] \in Headers(d)
                   /\ d[h[i] + 1].typ = 1
                   /\ ~IsEmptyRequest(d[h[i] + 1])
                   /\ it.out[i].flag = d[h[i]].num
                   /\ it.out[i].set = d[h[i]].tag
                   /\ it.out[i].eltype = d[h[i]].dat[1]
                   /\ Len(it.out[i].data) > 0
            /\ \A i, j \in 1..Len(h) : i < j => h[i] < h[j]

\* an iteration has ended normally with one block on an increment of two
\* requests, one of them empty
C3_Witness ==
    /\ Iterated /\ it.st = "done"
    /\ Len(it.out) = 1
    /\ Cardinality(Headers(ItData)) = 2
    /\ \E k \in Headers(ItData) : IsEmptyRequest(ItData[k + 1])

\* C3 as stated: an iteration that gets to the end marker has yielded
\* exactly one block per request header of the increment, in on-disk
\* order, a block without rows for each empty request
C3_AsStated ==
    Iterated /\ it.st = "done" =>
        LET d == ItData
            h == SortedSeq(Headers(d))
        IN  /\ Len(it.out) = Len(h)
            /\ \A i \in 1..Len(h) :
                   /\ it.out[i].s_pos = PosOf(d, h[i] + 1)
                   /\ IsEmptyRequest(d[h[i] + 1]) => it.out[i].data = <<>>

----------------------------------------------------------------------------
(* Element blocks and surfaces of the object *)

\* self.elm has been set (line 193) and __init__ has not failed
ElmSet ==
    pc \in {"l208", "l220", "l235", "l249", "l254", "l259", "l263", "l292",
            "l298", "l333", "l340", "ready"}

\* the indices of the 1900 records of f with type tag g
ElmRecs(f, g) == {k \in 1..Len(f) : f[k].typ = 1900 /\ f[k].tag = g}

\* the element numbers of the 1900 records of f with type tag g, in file
\* order: the block of g after the runs are merged
MergedNums(f, g) ==
    LET ks == SortedSeq(ElmRecs(f, g)) IN [i \in 1..Len(ks) |-> f[ks[i]].num]

\* C4: once __init__ has fused the element blocks, there is one block per
\* type tag of the file, it holds the elements of that tag from all runs
\* of 1900 records in file order, and its element numbers are strictly
\* increasing; so no object is made of a file in which the merged element
\* numbers of some type tag are not strictly increasing.
C4_ElementsIncreasing ==
    ElmSet =>
        /\ \A i \in 1..Len(self.elm) :
               LET v == self.elm[i] IN
               /\ Len(v) > 0
               /\ IsSortedStrict(Col(v, "elnum"))
               /\ Col(v, "elnum") = MergedNums(fil, v[1].eltyp)
               /\ \A j \in 1..Len(self.elm) :
                      j # i => self.elm[j][1].eltyp # v[1].eltyp
        /\ \A g \in ElTyps :
               /\ ElmRecs(fil, g) # {} =>
                      \E i \in 1..Len(self.elm) : self.elm[i][1].eltyp = g
               /\ IsSortedStrict(MergedNums(fil, g))

\* an object is made whose element block of one type tag holds two
\* elements from two runs, with a record of another length between them
C4_Witness ==
    /\ pc = "ready"
    /\ \E i \in 1..Len(self.elm) : Len(self.elm[i]) = 2
    /\ \E k \in 2..(Len(fil) - 2) :
          /\ fil[k].typ = 1900 /\ fil[k + 1].typ = 1900 /\ fil[k + 2].typ = 1900
          /\ fil[k].tag = fil[k + 2].tag
          /\ fil[k].len = fil[k + 2].len
          /\ fil[k + 1].len # fil[k].len

\* the surfaces of the object: deformable and rigid ones
Surfaces == {self.dsurf[n] : n \in DOMAIN self.dsurf}
            \cup {self.rsurf[n] : n \in DOMAIN self.rsurf}

\* the index in f of the last 1501 record
LastSurfHeader(f) ==
    CHOOSE k \in 1..Len(f) :
        f[k].typ = 1501 /\ \A j \in (k + 1)..Len(f) : f[j].typ # 1501

----------------------------------------------------------------------------
(* The least file *)

\* the record types of a file of an info record, one element record, one
\* node record, the DOF record, the heading and one increment without
\* requests, and no padding record before the increment
LeastTypes == <<1921, 1900, 1901, 1902, 1922, 2000, 2001>>

\* __init__ has read the first 2000 record of such a file, whose records
\* are each of a supported length
LeastFileRead ==
    /\ Len(fil) \in {6, 7}
    /\ [i \in 1..Len(fil) |-> fil[i].typ] = SubSeq(LeastTypes, 1, Len(fil))
    /\ SupportedPair(fil[1].typ, fil[1].len)
    /\ SupportedPair(fil[2].typ, fil[2].len)
    /\ SupportedPair(fil[3].typ, fil[3].len)
    /\ SupportedPair(fil[6].typ, fil[6].len)

\* C6 (amended): a file of exactly an info record, one element record, one
\* node record, the DOF record, the heading and one increment without
\* requests, with no padding record before the increment, is accepted by
\* __init__ if and only if its first 2000 record starts on a physical
\* record boundary (a multiple of AWR words); if it does, the object has
\* one step and get_step(0) ends without a block; if it does not,
\* __init__ fails with an AssertionError.
C6_LeastFile ==
    LeastFileRead =>
        IF PosOf(fil, 6) % AWR = 0
        THEN /\ pc \in {"l340", "ready"}
             /\ pc = "ready" => Len(self.step) = 1 /\ Len(self.step_rec) = 2
             /\ pc = "ready" /\ it.st \in {"run", "done", "failed"} =>
                    it.istep = 0 /\ it.st = "done" /\ it.out = <<>>
        ELSE pc = "failed" /\ err = "AssertionError"

\* get_step(0) has ended on the object made of such a file
C6_Witness ==
    /\ LeastFileRead /\ Len(fil) = 7
    /\ pc = "ready" /\ it.st = "done" /\ it.out = <<>>

\* C6 as stated: every such file is accepted
C6_AsStated == LeastFileRead => pc # "failed"

----------------------------------------------------------------------------
(* Element sets and node sets *)

\* the members of the set of label g in f, whose label records have type
\* t and whose continuation records have type tc: the members of the last
\* label record of g, then those of the continuation records after it
RECURSIVE MembersFrom(_, _, _)
MembersFrom(f, k, tc) ==
    IF k <= Len(f) /\ f[k].typ = tc
    THEN f[k].dat \o MembersFrom(f, k + 1, tc)
    ELSE <<>>

LabelRecs(f, t, g) == {k \in 1..Len(f) : f[k].typ = t /\ f[k].tag = g}

SetMembers(f, t, tc, g) ==
    LET k == CHOOSE k \in LabelRecs(f, t, g) :
                 \A j \in LabelRecs(f, t, g) : j <= k
    IN  f[k].dat \o MembersFrom(f, k + 1, tc)

\* __init__ has read the element sets and the node sets
SetsRead ==
    pc \in {"l249", "l254", "l259", "l263", "l292", "l298", "l333", "l340",
            "ready"}

\* C7: every element set and every node set of the object holds, under
\* its label, the members of the label record (1933 / 1931) followed by
\* the members of each continuation record (1934 / 1932) after it, in
\* file order: what is stored depends on the members only, not on how
\* they are split over the records.
C7_SetMembers ==
    SetsRead =>
        /\ DOMAIN self.elset = {g \in Labels : LabelRecs(fil, 1933, g) # {}}
        /\ DOMAIN self.nset = {g \in Labels : LabelRecs(fil, 1931, g) # {}}
        /\ \A g \in DOMAIN self.elset :
               self.elset[g] = SetMembers(fil, 1933, 1934, g)
        /\ \A g \in DOMAIN self.nset :
               self.nset[g] = SetMembers(fil, 1931, 1932, g)

\* an object is made with an element set of a label record and a
\* continuation record
C7_Witness ==
    /\ pc = "ready"
    /\ \E g \in DOMAIN self.elset : Len(self.elset[g]) = 2
    /\ \E k \in 1..cur : fil[k].typ = 1934

----------------------------------------------------------------------------
(* 1990 continuation records *)

\* __init__ has just read a 1990 record that follows 1900 records, all of
\* them of a supported length and with strictly increasing element
\* numbers per type tag
ContinuationRead ==
    LET n == Len(fil) IN
    /\ n >= 3
    /\ fil[1].typ = 1921 /\ SupportedPair(fil[1].typ, fil[1].len)
    /\ \A k \in 2..(n - 1) :
           fil[k].typ = 1900 /\ SupportedPair(fil[k].typ, fil[k].len)
    /\ fil[n].typ = 1990
    /\ \A g \in ElTyps : IsSortedStrict(MergedNums(fil, g))

\* C8 as stated: a 1990 record that follows 1900 records extends the
\* incidence list of the last element read with its node numbers:
\* __init__ goes on, and the row of that element, in the list of its type
\* tag, is replaced by the longer one.
C8_AsStated ==
    ContinuationRead =>
        LET n    == Len(fil)
            last == fil[n - 1]
        IN  /\ pc = "l190"
            /\ \E i \in 1..Len(loc.elm) :
                   /\ loc.elm[i].k = last.tag
                   /\ LET v == loc.elm[i].v IN
                      v[Len(v)][Len(v[Len(v)])] =
                          [elnum |-> last.num, eltyp |-> last.tag,
                           ninc |-> last.dat \o fil[n].dat]

----------------------------------------------------------------------------
(* Iterating an increment again *)

\* whether sequence s is the start of sequence t
IsPrefix(s, t) == Len(s) <= Len(t) /\ s = SubSeq(t, 1, Len(s))

\* C9: an iteration of get_step(i) gives the blocks, and ends the way, the
\* first finished iteration of get_step(i) on this object did, whatever
\* get_step calls were made on it before or in between.
C9_SameBlocksAgain ==
    Iterated /\ seen[it.istep + 1] # <<>> =>
        LET first == seen[it.istep + 1][1].res IN
        /\ it.st \in {"done", "failed"} => Outcome(it) = first
        /\ it.st = "run" => IsPrefix(it.out, first.out)

\* the third get_step call has ended after a block, on an increment that
\* an earlier call was the first to finish
C9_Witness ==
    /\ Iterated /\ it.st = "done" /\ it.calls = 3
    /\ Len(it.out) > 0
    /\ seen[it.istep + 1] # <<>>
    /\ seen[it.istep + 1][1].by < it.calls
    /\ Len(self.step) > 1

----------------------------------------------------------------------------
(* A request of another output kind *)

\* the index in d of the first request header whose output kind is not
\* element output, 0 if there is none
FirstOther(d) ==
    LET ks == {k \in Headers(d) : ~IsElementOutput(d[k].num)}
    IN  IF ks = {} THEN 0 ELSE CHOOSE k \in ks : \A j \in ks : k <= j

\* the records 2..(u - 1) of d are requests of element output that are
\* well formed: request headers of the supported length, element headers
\* with nondecreasing numbers, and output variable records
WellFormedBefore(d, u) ==
    /\ d[1].typ = 2000
    /\ d[2].typ = 1911
    /\ \A k \in 2..(u - 1) :
           \/ d[k].typ = 1911 /\ SupportedPair(d[k].typ, d[k].len)
           \/ d[k].typ = 11
           \/ d[k].typ = 1 /\ d[k - 1].typ \in {1911, 1, 11}
                /\ (d[k - 1].typ = 1 => d[k - 1].num <= d[k].num)
                /\ (d[k - 1].typ = 11 /\ d[k - 2].typ = 1 =>
                        d[k - 2].num <= d[k].num)

\* the request headers before u that an element header follows
WithRowsBefore(d, u) == {k \in Headers(d) : k < u /\ d[k + 1].typ = 1}

\* C10 as stated: an iteration over an increment with a request header of
\* another output kind, behind well formed requests of element output,
\* ends at that header with NotImplementedError, after it has yielded the
\* blocks of the requests before it and no other block.
C10_AsStated ==
    Iterated /\ it.st \in {"done", "failed"} =>
        LET d == ItData
            u == FirstOther(d)
        IN  u # 0 /\ WellFormedBefore(d, u) =>
               /\ it.st = "failed"
               /\ it.exc = "NotImplementedError"
               /\ it.k = u
               /\ Len(it.out) = Cardinality(WithRowsBefore(d, u))

----------------------------------------------------------------------------
(* Termination of an iteration; increments that are cut short *)

\* the result sections of at most m records, and every section cut short
\* of one: the file ends before the end marker of its last increment
CutSections(m) ==
    UNION {{SubSeq(rs, 1, n) : n \in 1..Len(rs)} : rs \in Sections(m)}

\* lines 340 to 343 with a result section that may be cut short
IncStartCut == IncStartOf(CutSections(MaxCutRecs))

NextCut == IncStartCut \/ GetStepCall \/ GetStepNext

\* whether next() can be called: a generator is held and has not ended
CanRun == pc = "ready" /\ it.st \in {"new", "run"}

\* the caller goes on with next() while the generator has not ended: weak
\* fairness of GetStepNext, which is enabled exactly when CanRun holds
KeepsIterating == []<>(~CanRun) \/ []<><<GetStepNext>>_vars

\* the result sections, whole and cut short, behind MinHeader, and
\* get_step on them
SpecCut == InitStep /\ [][NextCut]_vars /\ KeepsIterating

\* whether the increment the generator iterates has an end marker
HasEnd(d) == \E k \in 1..Len(d) : d[k].typ = 2001

\* an iteration that has stopped stands on an end marker, one that has
\* failed holds its exception, and there are at most as many blocks as
\* request headers before the generator's position
EndsAtMarker ==
    Iterated =>
        LET d == ItData IN
        /\ it.k \in 0..Len(d)
        /\ it.st = "done" => it.k > 0 /\ d[it.k].typ = 2001
        /\ it.st = "failed" => it.exc # ""
        /\ ~HasEnd(d) => it.st # "done"
        /\ Len(it.out) <= Cardinality({h \in Headers(d) : h < it.k})

\* every next() that yields a block leaves the generator further on in
\* the increment
Advances ==
    it'.st = "run" /\ it'.calls = it.calls => it'.k > it.k

\* C11: every iteration of get_step ends: each next() that yields moves the
\* generator forward in the increment, and a generator that is run on gets
\* to the end marker and stops or fails with an exception; on an increment
\* without an end marker, or cut short in a request, it fails.
C11_Terminates ==
    /\ []EndsAtMarker
    /\ [][Advances]_vars
    /\ (it.st \in {"new", "run"}) ~> (it.st \in {"done", "failed"})

\* an iteration of an increment cut short in its second request has
\* failed after it yielded the block of the first
C11_Witness ==
    /\ Iterated /\ it.st = "failed" /\ it.exc = "RuntimeError"
    /\ Len(it.out) = 1
    /\ ~HasEnd(ItData)
    /\ ItData[Len(ItData)].typ = 1911

----------------------------------------------------------------------------
(* The node table *)

\* __init__ has passed line 212: self.coord is set
NodesRead ==
    pc \in {"l220", "l235", "l249", "l254", "l259", "l263", "l292", "l298",
            "l333", "l340", "ready"}

\* the node numbers of the 1901 records of f, in file order
NodeNums(f) ==
    LET ks == SortedSeq({k \in 1..Len(f) : f[k].typ = 1901})
    IN  [i \in 1..Len(ks) |-> f[ks[i]].num]

\* a 1901 record of f follows a 1901 record of the same or of a higher
\* node number
NodeOutOfOrder(f) ==
    \E k \in 2..Len(f) :
        f[k - 1].typ = 1901 /\ f[k].typ = 1901 /\ f[k - 1].num >= f[k].num

\* C12: once __init__ has read the node records, the node table holds the
\* nodes of the 1901 records of the file in file order and its node numbers
\* are strictly increasing; once it is past the run of 1901 records (the
\* send of line 208), __init__ has failed on every file in which a node
\* number is repeated or decreases.
C12_NodesIncreasing ==
    /\ NodesRead =>
           /\ Len(self.coord) > 0
           /\ Col(self.coord, "nnum") = NodeNums(fil)
           /\ IsSortedStrict(Col(self.coord, "nnum"))
    /\ NodeOutOfOrder(fil) /\ pc # "l208" => pc = "failed"

\* an object is made with two nodes in its node table
C12_Witness == pc = "ready" /\ Len(self.coord) = 2

----------------------------------------------------------------------------
(* A file without element records *)

\* __init__ has read a 1921 record and, right behind it, a 1901 record
NodeAfterInfo ==
    Len(fil) >= 2 /\ fil[1] = Rec(1921, 9, 0, 0, <<>>) /\ fil[2].typ = 1901

\* C13 (amended): the builder does not accept a file without element
\* records: on a 1921 record followed directly by a 1901 record __init__
\* fails with AssertionError, and every object made has at least one
\* element block, read from a 1900 record that follows the 1921 record.
C13_NeedsElement ==
    /\ NodeAfterInfo => pc = "failed" /\ err = "AssertionError"
    /\ ElmSet /\ pc # "failed" => Len(self.elm) >= 1 /\ fil[2].typ = 1900

\* __init__ has failed at the node record behind the 1921 record
C13_Witness == NodeAfterInfo /\ Len(fil) = 2 /\ pc = "failed"

\* C13 as stated: a 1921 record followed directly by 1901 records is
\* accepted
C13_AsStated == NodeAfterInfo => pc # "failed"

----------------------------------------------------------------------------
(* Two generators of one object *)

\* abq.get_step(istep) once more, with the generator of the first call
\* kept
GetStepAlso ==
    /\ pc = "ready"
    /\ it.calls = 1 /\ other = NoIt
    /\ \E istep \in 0..(Len(self.step) - 1) : it' = NewIt(it, istep)
    /\ other' = it
    /\ UNCHANGED <<fil, cur, pc, err, loc, self, seen, lk>>

\* the caller turns to the other generator it holds
Switch ==
    /\ pc = "ready"
    /\ other # NoIt
    /\ it' = other
    /\ other' = it
    /\ UNCHANGED <<fil, cur, pc, err, loc, self, seen, lk>>

IncStartPair == IncStartUpTo(MaxPairRecs)

NextPair == IncStartPair \/ GetStepOnce \/ GetStepAlso \/ Switch \/ GetStepNext

\* two generators on the result sections behind MinHeader, their next()
\* calls in every order
SpecPair == InitStep /\ [][NextPair]_vars

RECURSIVE Drain(_, _)
\* generator g on the records d run to its end with no other generator
Drain(g, d) ==
    IF g.st \in {"done", "failed"} THEN g
    ELSE Drain(Resume(g, IF g.st = "new" THEN Start(d) ELSE Requests(d, g.k)), d)

\* what generator g has given is what a generator alone on its increment
\* gives: so far a prefix of its blocks, and at its end all of its blocks
\* and its ending
AsAlone(g) ==
    g.st \in {"run", "done", "failed"} =>
        LET d == StepData(fil, self.step_rec, g.istep)
            a == Drain(NewIt(NoIt, g.istep), d)
        IN  /\ IsPrefix(g.out, a.out)
            /\ g.st \in {"done", "failed"} =>
                   g.out = a.out /\ g.st = a.st /\ g.exc = a.exc

\* C14: with two generators of one object, on one increment or on two,
\* and their next() calls in any order, each generator gives the blocks
\* and the ending it gives when it is run alone.
C14_Independent == pc = "ready" => AsAlone(it) /\ AsAlone(other)

\* two generators on one increment have both given a block, and the one
\* in hand, which was behind the other, has ended
C14_Witness ==
    /\ pc = "ready"
    /\ other.st = "run" /\ it.st = "done"
    /\ it.istep = other.istep
    /\ Len(other.out) = 1 /\ Len(it.out) = 2

----------------------------------------------------------------------------
(* get_step and the object *)

\* a step of get_step, a call or a next(), leaves the file, the object and
\* what __init__ left behind as they are
ModelKept ==
    pc = "ready" => fil' = fil /\ self' = self /\ pc' = pc /\ err' = err

\* C15: get_step leaves the object unchanged: over every call of get_step
\* and every next() on its generator, whether the iteration goes to its
\* end, is dropped halfway or fails, info, elm, coord, elset, nset, label,
\* dof, heading, rsurf, dsurf, step and step_rec keep the values __init__
\* gave them.
C15_ModelUnchanged == [][ModelKept]_vars

\* the third get_step call on an object has failed after a block, and an
\* earlier iteration of another increment went to its end
C15_Witness ==
    /\ pc = "ready" /\ it.calls = 3
    /\ it.st = "failed" /\ Len(it.out) >= 1
    /\ \E i \in 1..Len(seen) :
          /\ i # it.istep + 1 /\ seen[i] # <<>>
          /\ seen[i][1].res.st = "done"
    /\ DOMAIN self = DOMAIN NoSelf

----------------------------------------------------------------------------
(* The states of the decoder of an increment *)

\* the first record of the rows of a yielded block, as an index in d
FirstRow(d, blk) == IdxAt(d, blk.s_pos)

\* C16: the decoder of an increment passes over its first record, a 2000
\* record, which is in no block; where it expects a request or the end it
\* takes a 1911 or a 2001 record and fails on any other before it yields;
\* after every block its position is a 1911 or a 2001 record; and it stops
\* at the first 2001 record it meets there, with every block it has
\* yielded before that record.
C16_DecoderStates ==
    Iterated =>
        LET d == ItData IN
        /\ d[1].typ = 2000
        /\ \A i \in 1..Len(it.out) : FirstRow(d, it.out[i]) > 2
        /\ d[2].typ \notin {1911, 2001} =>
               it.st = "failed" /\ it.exc = "AssertionError" /\ it.out = <<>>
        /\ it.st = "run" =>
               /\ it.out # <<>>
               /\ d[it.k].typ \in {1911, 2001}
               /\ FirstRow(d, it.out[Len(it.out)]) < it.k
        /\ it.st = "done" =>
               /\ d[it.k].typ = 2001
               /\ \A i \in 1..Len(it.out) : FirstRow(d, it.out[i]) < it.k
               /\ \A j \in 2..(it.k - 1) : d[j].typ # 2001

\* an iteration has failed at the record behind the 2000 record, an
\* element header
C16_Witness ==
    /\ Iterated /\ it.st = "failed" /\ it.k = 2
    /\ ItData[2].typ = 1

----------------------------------------------------------------------------
(* The scan of the first row *)

\* C18 as stated: the scan of the first row stays inside its request: no
\* block has a 1911 or 2001 record among its columns, and the scan does
\* not run into the end of the stream when a 1911 or 2001 record ends the
\* request
C18_AsStated ==
    Iterated =>
        LET d == ItData IN
        /\ \A i \in 1..Len(it.out) :
               \A n \in 1..Len(it.out[i].names) :
                   it.out[i].names[n] \notin {1911, 2001}
        /\ it.st = "failed" /\ it.exc = "RuntimeError" /\ it.k > 2
              /\ d[it.k].typ = 1 /\ d[it.k - 1].typ = 1911
              => SkipTo(d, it.k, {1911, 2001}) = 0

----------------------------------------------------------------------------
(* The rows of a request *)

\* an element header with number n, output location lc and nsfc ns
RHdrOf(n, lc, ns) == Rec(1, 11, n, 0, <<1, 0, lc, 0, 3, 3, 3, ns>>)

\* an output variable record of another type, with two values
RVar2 == Rec(12, 4, 0, 0, <<6, 7>>)

\* the output variable records of a row: none, one, two of two types, or
\* two of one type
VarSeqs == {<<>>, <<RVar>>, <<RVar, RVar2>>, <<RVar, RVar>>}

\* the element headers of the rows of a request, one to m of them
HdrSeqs(m) ==
    UNION {[1..n -> {RHdrOf(e, lc, ns) : e \in Nums, lc \in {0, 1},
                                          ns \in {0, 1}}] : n \in 1..m}

\* the rows of a request: each row an element header of hs and behind it
\* the records vs
RowsOf(hs, vs) == Flatten([i \in 1..Len(hs) |-> <<hs[i]>> \o vs])

\* rows that do not all hold the same records
Ragged ==
    {<<RHdr(1), RVar, RHdr(2)>>, <<RHdr(1), RHdr(2), RVar>>,
     <<RHdr(1), RVar, RHdr(2), RVar2>>}

\* an increment of one request of element output with at most m rows
RowSections(m) ==
    {<<RInc, RReq(0)>> \o rows \o <<REnd(SumLen(<<RInc, RReq(0)>> \o rows))>> :
        rows \in {RowsOf(hs, vs) : hs \in HdrSeqs(m), vs \in VarSeqs}
                 \cup Ragged}

\* lines 340 to 343 with such an increment as the result section
IncStartRows == IncStartOf(RowSections(MaxRows))

NextRows == IncStartRows \/ GetStepOnce \/ GetStepNext

\* one request with rows of every kind behind MinHeader, and get_step on
\* it
SpecRows == InitStep /\ [][NextRows]_vars

\* the element headers of the request with header h, as indices in d, in
\* file order
ReqRows(d, h) ==
    SortedSeq({k \in (h + 1)..(SkipTo(d, h, {1911, 2001}) - 1) : d[k].typ = 1})

\* the fields of an element header record that the asserts of get_step
\* look at
HdrFields(r) ==
    [num |-> r.num, loc |-> r.dat[3], ndi |-> r.dat[5], nshr |-> r.dat[6],
     ndir |-> r.dat[7], nsfc |-> r.dat[8]]

\* the context fields of a row
Context == {"loc", "ndi", "nshr", "ndir", "nsfc"}

\* element numbers do not decrease over the rows, given by their fields,
\* and each context field has one value in all of them
PostOk(rows) ==
    /\ \A i \in 1..(Len(rows) - 1) : rows[i].num <= rows[i + 1].num
    /\ \A c \in Context : \A i \in 1..Len(rows) : rows[i][c] = rows[1][c]

\* the records of the k-th row of the request with header h: their types
\* and lengths behind the element header
RowShape(d, h, k) ==
    LET ks  == ReqRows(d, h)
        end == IF k < Len(ks) THEN ks[k + 1]
               ELSE SkipTo(d, h, {1911, 2001})
    IN  [j \in 1..(end - ks[k] - 1) |->
            <<d[ks[k] + j].typ, d[ks[k] + j].len>>]

\* every row of the request with header h holds the records of the first
Uniform(d, h) ==
    \A k \in 1..Len(ReqRows(d, h)) : RowShape(d, h, k) = RowShape(d, h, 1)

\* the fields of the element headers of the request with header h
DiskRows(d, h) ==
    LET ks == ReqRows(d, h) IN [i \in 1..Len(ks) |-> HdrFields(d[ks[i]])]

\* C20: in every block get_step yields, element numbers do not decrease
\* over the rows and loc, ndi, nshr, ndir and nsfc each have one value in
\* all rows; a request in whose rows element numbers decrease, or one of
\* these fields varies, makes get_step fail, and no block is yielded for
\* it.
C20_PostConditions ==
    Iterated =>
        LET d == ItData IN
        /\ \A i \in 1..Len(it.out) : PostOk(it.out[i].data)
        /\ \A h \in Headers(d) :
               Uniform(d, h) /\ ~PostOk(DiskRows(d, h)) =>
                   /\ it.st # "done"
                   /\ it.st = "run" => it.k <= h
                   /\ \A i \in 1..Len(it.out) : HeaderOf(d, it.out[i]) # h

\* an iteration has failed on a request of two rows or more whose records
\* are alike and in which nsfc alone varies
C20_Witness ==
    /\ Iterated /\ it.st = "failed" /\ it.exc = "AssertionError"
    /\ Uniform(ItData, 2)
    /\ LET rows == DiskRows(ItData, 2) IN
          /\ Len(rows) >= 2
          /\ \E i \in 1..Len(rows) : rows[i].nsfc # rows[1].nsfc
          /\ PostOk([i \in 1..Len(rows) |-> [rows[i] EXCEPT !.nsfc = 0]])

\* the request headers of d with row data that the generator has worked
\* on, whose rows hold the same records and meet the conditions of the
\* asserts
WorkedOn(d) ==
    {h \in Headers(d) :
        /\ d[h + 1].typ = 1
        /\ it.st \in {"done", "failed"} \/ it.k > h
        /\ Uniform(d, h) /\ PostOk(DiskRows(d, h))}

\* the block yielded for the request with header h, as a set
BlocksOf(d, h) ==
    {i \in 1..Len(it.out) : HeaderOf(d, it.out[i]) = h}

\* the output variable records of the first row of the request with
\* header h, as indices in d: those between its first element header and
\* the next element header or the end of the request
FirstRowRecs(d, h) ==
    {j \in (h + 2)..(SkipTo(d, h + 1, {1, 1911, 2001}) - 1) : TRUE}

\* C17 as stated: for every request with row data there is a block whose
\* rows have one field for each type of output variable record of the
\* first row, holding the payload of that record, also when a type comes
\* twice in the first row, and the row size is the distance from the
\* first element header to the next
C17_AsStated ==
    Iterated =>
        LET d == ItData IN
        \A h \in WorkedOn(d) :
            /\ BlocksOf(d, h) # {}
            /\ \A i \in BlocksOf(d, h) :
                   LET blk  == it.out[i]
                       recs == FirstRowRecs(d, h)
                       size == PosOf(d, SkipTo(d, h + 1, {1, 1911, 2001}))
                               - PosOf(d, h + 1)
                   IN  /\ Len(blk.names) =
                              Cardinality({d[j].typ : j \in recs})
                       /\ \A n \in 1..Len(blk.names) :
                              \E j \in recs :
                                  /\ d[j].typ = blk.names[n]
                                  /\ \A j2 \in recs :
                                         d[j2].typ = d[j].typ => j <= j2
                                  /\ blk.data[1].R[n] = d[j].dat
                       /\ Len(blk.data) * size =
                              PosOf(d, SkipTo(d, h, {1911, 2001}))
                              - PosOf(d, h + 1)

\* C19 as stated: for every request with row data there is a block with
\* as many rows as the request has element headers, and row k holds the
\* fields of the k-th element header
C19_AsStated ==
    Iterated =>
        LET d == ItData IN
        \A h \in WorkedOn(d) :
            /\ BlocksOf(d, h) # {}
            /\ \A i \in BlocksOf(d, h) :
                   LET data == it.out[i].data
                       rows == DiskRows(d, h)
                   IN  /\ Len(data) = Len(rows)
                       /\ \A k \in 1..Len(rows) :
                              \A c \in Context \cup {"num"} :
                                  data[k][c] = rows[k][c]

----------------------------------------------------------------------------
(* One element block per type tag *)

\* the rows of the 1900 records of f with type tag g, in file order
MergedRows(f, g) ==
    LET ks == SortedSeq(ElmRecs(f, g)) IN [i \in 1..Len(ks) |-> ElmRow(f[ks[i]])]

\* the blocks of self.elm that hold a row of type tag g
BlocksWith(g) ==
    {i \in 1..Len(self.elm) :
        \E j \in 1..Len(self.elm[i]) : self.elm[i][j].eltyp = g}

\* C21: once __init__ has fused the element blocks, the object holds
\* exactly one block for each type tag that a 1900 record of the file has
\* and none for any other tag; the block of a tag holds the rows (element
\* number, type tag, incidences) of the 1900 records of that tag, each
\* once and in file order, so every row of a block has the same tag; this
\* holds however the records of a tag are spread over runs of 1900
\* records and whichever tags share a run.
C21_OneBlockPerTag ==
    ElmSet =>
        /\ \A g \in ElTyps :
               Cardinality(BlocksWith(g)) =
                   IF ElmRecs(fil, g) = {} THEN 0 ELSE 1
        /\ \A i \in 1..Len(self.elm) :
               LET v == self.elm[i] IN
               /\ Len(v) > 0
               /\ v[1].eltyp \in ElTyps
               /\ v = MergedRows(fil, v[1].eltyp)
               /\ \A j \in 1..Len(v) : v[j].eltyp = v[1].eltyp

\* an object is made of a file whose three 1900 records form one run, the
\* first and the third of one type tag and the second of another
C21_Witness ==
    /\ pc = "ready"
    /\ Len(self.elm) = 2
    /\ fil[2].typ = 1900 /\ fil[3].typ = 1900 /\ fil[4].typ = 1900
    /\ fil[2].len = fil[3].len /\ fil[3].len = fil[4].len
    /\ fil[2].tag = fil[4].tag /\ fil[3].tag # fil[2].tag
    /\ \E i \in 1..Len(self.elm) : Len(self.elm[i]) = 2

----------------------------------------------------------------------------
(* Order of the members of element sets and node sets *)

\* the members of the set whose label record is record k of f and whose
\* continuation records have type tc
Assembled(f, k, tc) == f[k].dat \o MembersFrom(f, k + 1, tc)

\* the record that ends the set of label record k has been read
Complete(f, k, tc) ==
    \E j \in (k + 1)..Len(f) :
        f[j].typ # tc /\ \A i \in (k + 1)..(j - 1) : f[i].typ = tc

\* the set of label record k is the last thing read before the last record
\* of f, which is one __init__ goes on with after a node set
NsetJustRead(f, k) ==
    /\ f[k].typ = 1931
    /\ k < Len(f)
    /\ \A i \in (k + 1)..(Len(f) - 1) : f[i].typ = 1932
    /\ f[Len(f)].typ \in {1931, 1940, 1902}

\* C22: an element set is checked once its label record and all its
\* continuation records are read: if its members are not strictly
\* increasing __init__ fails with an AssertionError, so the element sets
\* of an object are strictly increasing; a node set is stored as read
\* whatever the order of its members, and __init__ goes on after it.
C22_SetOrder ==
    /\ \A k \in 1..Len(fil) :
           /\ fil[k].typ = 1933
           /\ Complete(fil, k, 1934)
           /\ ~IsSortedStrict(Assembled(fil, k, 1934))
           => pc = "failed" /\ err = "AssertionError"
    /\ SetsRead \/ pc = "l235" =>
           \A g \in DOMAIN self.elset : IsSortedStrict(self.elset[g])
    /\ \A k \in 1..Len(fil) :
           NsetJustRead(fil, k) /\ cur = Len(fil) =>
               /\ pc = "failed" => err = "StopIteration"
               /\ pc # "failed" =>
                      self.nset[fil[k].tag] = Assembled(fil, k, 1932)

\* an object is made with a node set of two members, the second smaller
\* than the first
C22_Witness ==
    /\ pc = "ready"
    /\ \E g \in DOMAIN self.nset :
           Len(self.nset[g]) = 2 /\ self.nset[g][1] > self.nset[g][2]

----------------------------------------------------------------------------
(* Deformable and rigid surfaces *)

\* the surfaces of dict d without their facet blocks, which __init__ adds
\* to a surface after it has entered it
Bare(d) == [n \in DOMAIN d |-> [d[n] EXCEPT !.facet_block = <<>>]]

\* a 1501 record that line 276, 282 or 288 refuses: its type attribute is
\* neither 1 nor 2, or it is deformable and its fourth attribute is not
\* its length less 7, or it is rigid and longer than 7 words
Refused(r) ==
    \/ r.dat[2] \notin {1, 2}
    \/ r.dat[2] = 1 /\ r.dat[4] # r.len - 7
    \/ r.dat[2] = 2 /\ r.len # 7

\* a step of __init__ that reads a 1501 record and goes on: the record is
\* entered as the claim says
HeaderStored ==
    Len(fil') = Len(fil) + 1 /\ fil'[Len(fil')].typ = 1501 /\ pc' # "failed" =>
        LET r    == fil'[Len(fil')]
            name == r.tag
        IN  /\ pc' = "l292"
            /\ ~Refused(r)
            /\ r.dat[2] = 1 =>
                   /\ Bare(self'.rsurf) = Bare(self.rsurf)
                   /\ name \in DOMAIN self'.dsurf
                   /\ Len(self'.dsurf[name].msurf) = r.dat[4]
                   /\ Len(self'.dsurf[name].msurf) = r.len - 7
                   /\ self'.dsurf[name].msurf = SubSeq(r.dat, 5, Len(r.dat))
            /\ r.dat[2] = 2 =>
                   /\ Bare(self'.dsurf) = Bare(self.dsurf)
                   /\ name \in DOMAIN self'.rsurf
                   /\ self'.rsurf[name].reference_node = r.dat[4]
                   /\ self'.rsurf[name].msurf = <<>>

\* the last record read is a 1501 record that is refused: __init__ has
\* failed on an assert
RefusedFails ==
    cur > 0 /\ cur = Len(fil) /\ fil[cur].typ = 1501 /\ Refused(fil[cur]) =>
        pc = "failed" /\ err = "AssertionError"

\* C23: a 1501 record of type attribute 1 is entered as a deformable
\* surface and leaves the rigid surfaces as they are; the surface holds as
\* many secondary surfaces as the fourth attribute of the record says,
\* which is the length of the record less 7.  A 1501 record of type
\* attribute 2 is entered as a rigid surface and leaves the deformable
\* surfaces as they are; its reference node is the fourth attribute and
\* it holds no secondary surface.  On any other type attribute, and on a
\* fourth attribute of a deformable surface that differs from the length
\* less 7, __init__ fails.
C23_SurfaceKinds == []RefusedFails /\ [][HeaderStored]_vars

\* an object is made with a deformable surface of one secondary surface
\* and a rigid surface whose reference node is 1
C23_Witness ==
    /\ pc = "ready"
    /\ \E n \in DOMAIN self.dsurf : Len(self.dsurf[n].msurf) = 1
    /\ \E n \in DOMAIN self.rsurf : self.rsurf[n].reference_node = 1

----------------------------------------------------------------------------
(* The layout of a supported pair *)

\* the least multiple of AWL that is not below x
RoundUp(x) == CHOOSE y \in x..(x + AWL - 1) : y % AWL = 0

RECURSIVE SumRounded(_, _)
\* the sizes of the first n fields, each rounded up, added up
SumRounded(sizes, n) ==
    IF n = 0 THEN 0 ELSE SumRounded(sizes, n - 1) + RoundUp(sizes[n])

\* the layout dt has each field at the sum of the rounded sizes of the
\* fields before it, so every field starts on a word boundary and ends
\* before the next one starts, and the fields fill nbytes bytes
LaidOut(dt, nbytes) ==
    LET n == Len(dt.sizes) IN
    /\ n > 0
    /\ Len(dt.offsets) = n /\ Len(dt.names) = n
    /\ \A i \in 1..n :
           /\ dt.offsets[i] = SumRounded(dt.sizes, i - 1)
           /\ dt.offsets[i] % AWL = 0
           /\ dt.sizes[i] > 0
           /\ i < n => dt.offsets[i] + dt.sizes[i] <= dt.offsets[i + 1]
    /\ dt.offsets[n] + dt.sizes[n] <= nbytes
    /\ dt.itemsize = SumRounded(dt.sizes, n)
    /\ dt.itemsize = nbytes

\* C24: for every (type, length) pair of the match statement of
\* _record_dtype, the call gives a layout and does not fail on the assert
\* of line 131: each field stands at the sum of the sizes of the fields
\* before it, each rounded up to a multiple of AWL, so the fields are
\* aligned and do not overlap, and the size of the layout is the payload
\* of the record, (length - 2) * AWL bytes.
C24_LayoutFits ==
    lk.rtyp # 0 /\ SupportedPair(lk.rtyp, lk.rlen) =>
        /\ lk.exc = ""
        /\ LaidOut(lk.dt, (lk.rlen - 2) * AWL)

\* _record_dtype has been called for a 2000 record of 23 words and has
\* given a layout with fields of 4, 8 and 80 bytes
C24_Witness ==
    /\ pc = "lookup" /\ lk.rtyp = 2000 /\ lk.rlen = 23 /\ lk.exc = ""
    /\ \E i \in 1..Len(lk.dt.sizes) : lk.dt.sizes[i] = 4
    /\ \E i \in 1..Len(lk.dt.sizes) : lk.dt.sizes[i] = 80

----------------------------------------------------------------------------
(* get_step with any index *)

\* abq.get_step(istep), once, with an index from two below the least
\* index step_rec has to one above the greatest
GetStepAny ==
    /\ pc = "ready"
    /\ it.calls < 1
    /\ \E istep \in (-(Len(self.step_rec) + 2))..(Len(self.step_rec) + 1) :
           it' = NewIt(it, istep)
    /\ UNCHANGED <<fil, cur, pc, err, loc, self, other, seen, lk>>

NextAny == IncStartLong \/ GetStepAny \/ GetStepNext

\* the result sections of the bounds behind MinHeader, and get_step with
\* any index on them
SpecAny == InitStep /\ [][NextAny]_vars

\* the records of increment i of the file, for i from 0 to the number of
\* increments less 1
IncrementOf(i) == Slice(fil, self.step_rec[i + 1], self.step_rec[i + 2])

\* each of the blocks yielded starts right behind a request header of
\* increment i, and they come in the order of the file
BlocksWithin(out, i) ==
    LET d == IncrementOf(i) IN
    /\ \A j \in 1..Len(out) :
           \E k \in Headers(d) : out[j].s_pos = PosOf(d, k + 1)
    /\ \A j \in 1..(Len(out) - 1) : out[j].s_pos < out[j + 1].s_pos

\* C25 as stated: get_step(i) yields blocks only if 0 <= i < number of
\* increments, and then only blocks of the records between step_rec[i]
\* and step_rec[i + 1]; with any other index it fails with an error and
\* yields no block.
C25_AsStated ==
    pc = "ready" /\ it.st \in {"run", "done", "failed"} =>
        IF 0 <= it.istep /\ it.istep < Len(self.step)
        THEN BlocksWithin(it.out, it.istep)
        ELSE it.st = "failed" /\ it.out = <<>>

====
